---- MODULE Spec2Model ----
(***************************************************************************)
(* A model of terminallm's agent runtime: the conversation loop            *)
(* (LLMClient.send_message_stream / ContentGenerator.generate_content_     *)
(* streaming), the tool dispatch of ToolCallManager.schedule, the          *)
(* ToolExecutor and the EventManager bus.                                  *)
(***************************************************************************)
EXTENDS Integers, Sequences, FiniteSets, TLC

\* ------------------------------------------------------------------ bounds

\* model requests issued over one run of the conversation loop model
MaxTurns == 2
\* tool calls the model issues over one run (their ids are 1..MaxToolCalls)
MaxToolCalls == 2

\* ------------------------------------------------------------- vocabulary

\* Python's None where a string is expected
None == "<None>"

\* an Optional[list]: tool_calls is None, or a list of tool calls
NoCalls == [none |-> TRUE, list |-> <<>>]

CallList(l) == [none |-> FALSE, list |-> l]

\* the tools ToolRegistry.register_tools puts in the registry of the src/ variant
RegisteredTools == {"read_file", "run_shell_command"}

\* tool names the model can put in a tool call: missing, unknown, registered
ToolNames == {"", "nonexistent"} \cup RegisteredTools

\* Config.approval_mode as main() sets it
ApprovalModes == {"yolo", "default"}

FinishReasons == {"stop", "length"}

Contents == {None, "", "Done."}

\* the two conversation loops of the repository
Variants == {"src", "lib"}

\* Python truthiness of an Optional[str]
Truthy(s) == s # None /\ s # ""

\* Python truthiness of an Optional[list]
CallsTruthy(tc) == ~tc.none /\ Len(tc.list) > 0

\* ------------------------------------------------------------------ state

VARIABLES
    variant,          \* which loop runs: LLMClient ("src") or ContentGenerator ("lib")
    approval_mode,    \* Config.approval_mode
    history,          \* LLMClient.history / the loop's `messages`
    pc,               \* position of the loop
    response,         \* the aggregated response message of the current turn
    finish_reason,    \* its finish_reason
    req_idx,          \* schedule: index of the next request of the for loop
    results,          \* schedule: the results list
    body_runs,        \* schedule: tool bodies invoked for the current turn (call ids)
    final_response,   \* the loop's return value
    requests,         \* model requests issued so far
    next_id,          \* next tool call id the model will issue
    aggregates,       \* aggregated responses the transport has delivered so far
    token_counts,     \* token-count events the loop has published so far
    loop_failure,     \* what raised the exception that left the loop, if any
    subscriptions,    \* EventManager._subscriptions: id -> EventSubscription
    event_history,    \* EventManager._event_history
    subscription_counter, \* EventManager._subscription_counter
    shutdown_flag,    \* EventManager._shutdown
    lock,             \* EventManager._lock: "free", or the operation holding it
    unsub_id,         \* the subscription an unsubscribe in progress is stopping
    shutdown_pc,      \* position of a shutdown() call
    handled,          \* per subscription: the events passed to its handler
    dropped,          \* per subscription: "queue full, dropping event" warnings
    published,        \* publish() calls made so far
    bus_calls,        \* calls the clients of the bus have made so far
    publish_raised,   \* whether a publish() call has raised
    dispatcher,       \* the object dispatching tool calls: ToolExecutor or ToolCallManager
    tool_calls,       \* the tool calls passed to execute_tools_parallel / schedule
    task_pc,          \* execute_tools_parallel: position of each execute_tool task
    outcomes,         \* execute_tools_parallel: what each task returned or raised
    exec_results,     \* the list execute_tools_parallel / schedule builds and returns
    exec_pc,          \* position of the execute_tools_parallel / schedule call
    tool_runs,        \* tool bodies invoked during that call (call ids)
    exec_events,      \* events the executor has published (type, call id)
    exec_confirms,    \* confirmation decisions obtained during that call (id, confirmed)
    tool_middleware,  \* BaseTool.middleware of the registered tools (add_middleware)
    exec_trace,       \* executor: hooks and tool bodies invoked (call id, step, middleware)
    execution_stats,  \* ToolExecutor.execution_stats: per tool name, its counters
    ses_history,      \* LLMClientSession.history
    ses_messages,     \* generate_content_streaming: its local `messages`
    ses_pc,           \* position of a chat_message_stream call
    ses_events,       \* event types LlmClient / ContentGenerator published in this task
    ses_chunks,       \* chunks the current stream has yielded
    ses_requests,     \* model requests the session has issued
    ses_failure,      \* the exception raised inside the current task, if any
    ses_outcome,      \* what generate_content_streaming gave its caller
    snapshot,         \* the last get_event_history call: its arguments and result
    wait_pc,          \* position of a wait_for_previous_events call
    wait_at,          \* the subscription its for loop is at
    wait_size,        \* the size the table had when its iteration began
    reg_tools,        \* ToolRegistry._tools: name -> tool instance (0: no entry)
    reg_registered,   \* per name: the instance last passed to a registration (0: none)
    reg_next,         \* the next tool instance to be constructed
    reg_ops,          \* operations made on the registry so far
    reg_raised,       \* whether an operation on the registry has raised
    reg_config,       \* the config of the last register_tools call, and when it was
    sch_tool,         \* a tool as constructed: name, description, parameters, required
    sch_exporter,     \* the method asked for the export
    sch_provider,     \* the provider argument passed to it
    sch_export,       \* the dict it returned
    sch_pc,           \* "idle" before the export, "exported" after
    db_table,         \* whether the database file has the llmaudit table
    db_rows,          \* the rows of llmaudit
    db_initial,       \* the rows it had before the first call
    db_returns        \* Database: what each call so far returned (call, outcome)

loopVars == <<variant, approval_mode, history, pc, response, finish_reason,
              req_idx, results, body_runs, final_response, requests, next_id,
              aggregates, token_counts, loop_failure>>

busVars == <<subscriptions, event_history, subscription_counter, shutdown_flag,
             lock, unsub_id, shutdown_pc, handled, dropped, published,
             bus_calls, publish_raised>>

execVars == <<dispatcher, tool_calls, task_pc, outcomes, exec_results, exec_pc,
              tool_runs, exec_events, exec_confirms, tool_middleware,
              exec_trace, execution_stats>>

sesVars == <<ses_history, ses_messages, ses_pc, ses_events, ses_chunks,
             ses_requests, ses_failure, ses_outcome>>

readVars == <<snapshot, wait_pc, wait_at, wait_size>>

regVars == <<reg_tools, reg_registered, reg_next, reg_ops, reg_raised,
             reg_config>>

schemaVars == <<sch_tool, sch_exporter, sch_provider, sch_export, sch_pc>>

dbVars == <<db_table, db_rows, db_initial, db_returns>>

vars == <<loopVars, busVars, execVars, sesVars, readVars, regVars, schemaVars, dbVars>>

\* what the conversation loop leaves alone
notLoopVars == <<busVars, execVars, sesVars, readVars, regVars, schemaVars, dbVars>>

\* what the event bus leaves alone
notBusVars == <<loopVars, execVars, sesVars, readVars, regVars, schemaVars, dbVars>>

\* what a tool dispatch on its own leaves alone
notExecVars == <<loopVars, busVars, sesVars, readVars, regVars, schemaVars, dbVars>>

\* what a session leaves alone
notSesVars == <<loopVars, busVars, execVars, readVars, regVars, schemaVars, dbVars>>

\* what a reading operation of the bus leaves alone, the bus's own state aside
notReadVars == <<loopVars, execVars, sesVars, regVars, schemaVars, dbVars>>

\* what an operation on the tool registry leaves alone
notRegVars == <<loopVars, busVars, execVars, sesVars, readVars, schemaVars, dbVars>>

\* what a schema export leaves alone
notSchemaVars == <<loopVars, busVars, execVars, sesVars, readVars, regVars, dbVars>>

\* a dict with no key
EmptyDict == <<>>

\* what a Database call leaves alone
notDbVars == <<loopVars, busVars, execVars, sesVars, readVars, regVars, schemaVars>>

\* no Database call has been made: the file does not exist yet
DbIdle ==
    /\ db_table = FALSE
    /\ db_rows = 0
    /\ db_initial = 0
    /\ db_returns = <<>>

\* no export has been asked for: read_file as its class constructs it
SchemaIdle ==
    /\ sch_tool = [name |-> "read_file", description |-> "Read a file",
                   parameters |-> <<"path", "encoding">>,
                   required |-> <<"path">>]
    /\ sch_exporter = "ToolSchema.get_tool_schema"
    /\ sch_provider = "litellm"
    /\ sch_export = EmptyDict
    /\ sch_pc = "idle"

\* an argument that was not passed (None) or was passed with a value
NotGiven == [given |-> FALSE, value |-> None]
Given(v) == [given |-> TRUE, value |-> v]

\* the tool names used on the registry
RegNames == {"read_file", "write_file", "list_directory"}

\* ToolRegistry.__init__: an empty dict
RegIdle ==
    /\ reg_tools = [n \in RegNames |-> 0]
    /\ reg_registered = [n \in RegNames |-> 0]
    /\ reg_next = 1
    /\ reg_ops = 0
    /\ reg_raised = FALSE
    /\ reg_config = [at |-> 0, exclude_tools |-> {}, core_tools |-> NotGiven]

\* no get_event_history call has been made
ReadIdle ==
    /\ snapshot = [taken |-> FALSE]
    /\ wait_pc = "idle"
    /\ wait_at = 0
    /\ wait_size = 0

\* LLMClientSession.__init__: no chat_message_stream call has been made
SesIdle ==
    /\ ses_history = <<>>
    /\ ses_messages = <<>>
    /\ ses_pc = "idle"
    /\ ses_events = <<>>
    /\ ses_chunks = 0
    /\ ses_requests = 0
    /\ ses_failure = "none"
    /\ ses_outcome = [kind |-> "none", value |-> None]

\* no execute_tools_parallel / schedule call has been made
\* the counters of a tool name that has no entry in execution_stats yet: the
\* entry _update_execution_stats creates before it counts
NoStats ==
    [total_executions |-> 0, successful_executions |-> 0,
     failed_executions |-> 0]

ExecAtRest ==
    /\ tool_calls = <<>>
    /\ task_pc = <<>>
    /\ outcomes = <<>>
    /\ exec_results = <<>>
    /\ exec_pc = "idle"
    /\ tool_runs = <<>>
    /\ exec_events = <<>>
    /\ exec_confirms = <<>>
    /\ tool_middleware = <<>>
    /\ exec_trace = <<>>
    /\ execution_stats = [name \in RegisteredTools |-> NoStats]

ExecIdle == dispatcher = "ToolCallManager" /\ ExecAtRest

\* the loop before its first task
LoopIdle ==
    /\ history = <<>>
    /\ pc = "idle"
    /\ response = [content |-> None, tool_calls |-> NoCalls]
    /\ finish_reason = None
    /\ req_idx = 1
    /\ results = <<>>
    /\ body_runs = <<>>
    /\ final_response = None
    /\ requests = 0
    /\ next_id = 1
    /\ aggregates = 0
    /\ token_counts = 0
    /\ loop_failure = "none"

\* ----------------------------------------------------------- conversation

SystemMsg ==
    [role |-> "system", content |-> "prompt", tool_calls |-> <<>>,
     tool_call_id |-> 0, name |-> None]

UserMsg ==
    [role |-> "user", content |-> "task", tool_calls |-> <<>>,
     tool_call_id |-> 0, name |-> None]

AssistantMsg(content, calls) ==
    [role |-> "assistant", content |-> content, tool_calls |-> calls,
     tool_call_id |-> 0, name |-> None]

ToolMsg(r) ==
    [role |-> "tool", content |-> r.content, tool_calls |-> <<>>,
     tool_call_id |-> r.tool_call_id, name |-> r.name]

\* set_assistant_msg with its last branch appending the empty message instead
\* of only logging it
SetAssistantMsg_AppendsEmpty(h, m) ==
    IF CallsTruthy(m.tool_calls) /\ Truthy(m.content)
    THEN Append(h, AssistantMsg(m.content, m.tool_calls.list))
    ELSE IF Truthy(m.content) /\ ~CallsTruthy(m.tool_calls)
    THEN Append(h, AssistantMsg(m.content, <<>>))
    ELSE IF CallsTruthy(m.tool_calls) /\ m.content = None
    THEN Append(h, AssistantMsg(None, m.tool_calls.list))
    ELSE Append(h, AssistantMsg(m.content, <<>>))

\* LLMClient.set_assistant_msg / ContentGenerator._update_llm_response
SetAssistantMsg(h, m) ==
    IF CallsTruthy(m.tool_calls) /\ Truthy(m.content)
    THEN Append(h, AssistantMsg(m.content, m.tool_calls.list))
    ELSE IF Truthy(m.content) /\ ~CallsTruthy(m.tool_calls)
    THEN Append(h, AssistantMsg(m.content, <<>>))
    ELSE IF CallsTruthy(m.tool_calls) /\ m.content = None
    THEN Append(h, AssistantMsg(None, m.tool_calls.list))
    ELSE h

RECURSIVE AppendToolMsgs(_, _)
\* LLMClient.set_toolcall_response / ContentGenerator._update_tool_response
AppendToolMsgs(h, rs) ==
    IF rs = <<>> THEN h
    ELSE AppendToolMsgs(Append(h, ToolMsg(Head(rs))), Tail(rs))

\* the loop's exit test after a turn
LoopBreaks(v, m, fr) ==
    IF v = "src"
    THEN Truthy(m.content) /\ m.tool_calls.none
    ELSE Truthy(m.content) /\ fr = "stop"

\* ToolCallManager._confirm_tool_execution
ConfirmToolExecution == [confirmed |-> TRUE]

\* Tool.should_confirm_execute of the registered tools
ShouldConfirmExecute(name) == name = "run_shell_command"

\* ToolCallManager._execute_tool: the tool's llm_content, or the text of the
\* exception the tool body raised
ExecuteTool(tool_raises) == IF tool_raises THEN "error_msg" ELSE "llm_content"

\* one result dict of ToolCallManager.schedule
ResultDict(req, content) ==
    [tool_call_id |-> req.id, role |-> "tool", name |-> req.name,
     content |-> content]

\* a tool call as the model issues it: id, function name, and whether its
\* argument string is valid JSON (read only once the tool has been found)
CallsWithId(i) ==
    {[id |-> i, name |-> nm, args_ok |-> ok] :
        nm \in ToolNames, ok \in BOOLEAN} \
    {[id |-> i, name |-> nm, args_ok |-> FALSE] : nm \in ToolNames \ RegisteredTools}

\* the tool calls a response can carry: fresh ids from `first` on
RECURSIVE CallLists(_, _)
CallLists(first, n) ==
    IF n = 0 THEN {<<>>}
    ELSE {<<c>> \o rest : c \in CallsWithId(first),
                           rest \in CallLists(first + 1, n - 1)}


\* -------------------------------------------------------------- event bus

\* calls the clients of the bus make over one run of the bus model (publish,
\* subscribe, unsubscribe, shutdown)
MaxBusCalls == 4
\* max_event_history passed to EventManager()
MaxHistory == 2

EventTypes == {"content", "error"}

\* the event_types lists subscribers pass to subscribe()
Interests == {{"content"}, {"content", "error"}}

\* the queue_size values subscribers pass to subscribe()
QueueSizes == {0, 1, 2}

\* the ids subscribe() can hand out: sub_1, sub_2, ...
SubIds == 1..MaxBusCalls

\* asyncio.Queue.full(): a maxsize of zero or less makes the queue unbounded
QueueFull(sub) == sub.queue_size > 0 /\ Len(sub.queue) >= sub.queue_size

\* publish without the try/except around put_nowait
Offer_Raises(sub, e) ==
    IF QueueFull(sub)
    THEN [sub |-> sub, dropped |-> FALSE, raised |-> TRUE]
    ELSE [sub |-> [sub EXCEPT !.queue = Append(@, e)], dropped |-> FALSE,
          raised |-> FALSE]

\* publish with a queue that takes every event
Offer_NoDrop(sub, e) ==
    [sub |-> [sub EXCEPT !.queue = Append(@, e)], dropped |-> FALSE,
     raised |-> FALSE]

\* EventManager.publish, one subscription: put_nowait, QueueFull caught and logged
Offer(sub, e) ==
    IF QueueFull(sub)
    THEN [sub |-> sub, dropped |-> TRUE, raised |-> FALSE]
    ELSE [sub |-> [sub EXCEPT !.queue = Append(@, e)], dropped |-> FALSE,
          raised |-> FALSE]

\* publish offering every event to every active subscription, whatever its kind
Matches_AnyKind(sub, e) == sub.active

\* EventManager.publish: whether the event is offered to the subscription
Matches(sub, e) == e.etype \in sub.event_types /\ sub.active

\* a full history that turns the new event away and keeps the old ones
Retain_EvictsNewest(h, e) ==
    IF Len(h) >= MaxHistory THEN h ELSE Append(h, e)

\* EventManager.publish: append to the history, evict the oldest on overflow
Retain(h, e) ==
    LET h2 == Append(h, e)
    IN  IF Len(h2) > MaxHistory THEN Tail(h2) ELSE h2

\* the consumer loop stops at the first handler error
AfterHandlerError_Stops == "done"

\* EventSubscription._process_events: `except Exception` logs and the while
\* loop goes on
AfterHandlerError == "running"

\* EventSubscription.__init__ and start_processing
NewSubscription(types, qs) ==
    [event_types |-> types, queue_size |-> qs, queue |-> <<>>,
     active |-> TRUE, task |-> "running"]

BusIdle ==
    /\ subscriptions = <<>>
    /\ event_history = <<>>
    /\ subscription_counter = 0
    /\ shutdown_flag = FALSE
    /\ lock = "free"
    /\ unsub_id = 0
    /\ shutdown_pc = "idle"
    /\ handled = [i \in SubIds |-> <<>>]
    /\ dropped = [i \in SubIds |-> 0]
    /\ published = 0
    /\ bus_calls = 0
    /\ publish_raised = FALSE

BusInit ==
    /\ BusIdle
    /\ LoopIdle
    /\ ExecIdle
    /\ SesIdle
    /\ ReadIdle
    /\ RegIdle
    /\ SchemaIdle
    /\ DbIdle
    /\ variant = "src"
    /\ approval_mode = "default"

\* EventManager.publish on a bus that is not shut down
Publish ==
    /\ ~shutdown_flag
    /\ lock = "free"
    /\ bus_calls < MaxBusCalls
    /\ bus_calls' = bus_calls + 1
    /\ \E t \in EventTypes :
        LET e == [etype |-> t, n |-> published + 1]
            out == [i \in DOMAIN subscriptions |->
                        IF Matches(subscriptions[i], e)
                        THEN Offer(subscriptions[i], e)
                        ELSE [sub |-> subscriptions[i], dropped |-> FALSE,
                              raised |-> FALSE]]
        IN  /\ event_history' = Retain(event_history, e)
            /\ subscriptions' = [i \in DOMAIN subscriptions |-> out[i].sub]
            /\ dropped' = [i \in SubIds |->
                            IF i \in DOMAIN subscriptions /\ out[i].dropped
                            THEN dropped[i] + 1 ELSE dropped[i]]
            /\ publish_raised' = (publish_raised
                                  \/ \E i \in DOMAIN subscriptions : out[i].raised)
    /\ published' = published + 1
    /\ UNCHANGED <<subscription_counter, shutdown_flag, lock, unsub_id,
                   shutdown_pc, handled>>
    /\ UNCHANGED notBusVars

\* publish without the `if self._shutdown: return` test: the event is retained
\* once the lock is free
PublishAfterShutdown_Retains ==
    /\ shutdown_flag
    /\ lock = "free"
    /\ bus_calls < MaxBusCalls
    /\ bus_calls' = bus_calls + 1
    /\ published' = published + 1
    /\ event_history' = Retain(event_history, [etype |-> "content",
                                               n |-> published + 1])
    /\ UNCHANGED <<subscriptions, subscription_counter, shutdown_flag, lock,
                   unsub_id, shutdown_pc, handled, dropped, publish_raised>>
    /\ UNCHANGED notBusVars

\* EventManager.publish after shutdown(): returns at once
PublishAfterShutdown ==
    /\ shutdown_flag
    /\ bus_calls < MaxBusCalls
    /\ bus_calls' = bus_calls + 1
    /\ published' = published + 1
    /\ UNCHANGED <<subscriptions, event_history, subscription_counter,
                   shutdown_flag, lock, unsub_id, shutdown_pc, handled, dropped,
                   publish_raised>>
    /\ UNCHANGED notBusVars

\* EventManager.subscribe (a caller that finds the lock free takes it only if
\* no earlier caller is waiting for it)
Subscribe ==
    /\ lock = "free"
    /\ shutdown_pc # "want_lock"
    /\ bus_calls < MaxBusCalls
    /\ bus_calls' = bus_calls + 1
    /\ \E types \in Interests, qs \in QueueSizes :
        /\ subscription_counter' = subscription_counter + 1
        /\ subscriptions' = subscriptions @@
                ((subscription_counter + 1) :> NewSubscription(types, qs))
    /\ UNCHANGED <<event_history, shutdown_flag, lock, unsub_id, shutdown_pc,
                   handled, dropped, published, publish_raised>>
    /\ UNCHANGED notBusVars

\* EventSubscription._process_events: one event taken from the queue and passed
\* to the handler, which returns or raises
Consume(i) ==
    /\ i \in DOMAIN subscriptions
    /\ subscriptions[i].task = "running"
    /\ subscriptions[i].active
    /\ subscriptions[i].queue # <<>>
    /\ \E raises \in BOOLEAN :
        /\ handled' = [handled EXCEPT ![i] =
                Append(@, [event |-> Head(subscriptions[i].queue),
                           raised |-> raises])]
        /\ subscriptions' = [subscriptions EXCEPT
                ![i].queue = Tail(@),
                ![i].task = IF raises THEN AfterHandlerError ELSE "running"]
    /\ UNCHANGED <<event_history, subscription_counter, shutdown_flag, lock,
                   unsub_id, shutdown_pc, dropped, published, publish_raised>>
    /\ UNCHANGED bus_calls
    /\ UNCHANGED notBusVars

\* EventManager.unsubscribe up to the await in stop_processing: the lock is
\* taken, the subscription marked inactive and its task cancelled
UnsubscribeBegin(i) ==
    /\ lock = "free"
    /\ shutdown_pc # "want_lock"
    /\ i \in DOMAIN subscriptions
    /\ bus_calls < MaxBusCalls
    /\ bus_calls' = bus_calls + 1
    /\ lock' = "unsubscribe"
    /\ unsub_id' = i
    /\ subscriptions' = [subscriptions EXCEPT
            ![i].active = FALSE,
            ![i].task = IF @ = "running" THEN "cancelling" ELSE @]
    /\ UNCHANGED <<event_history, subscription_counter, shutdown_flag,
                   shutdown_pc, handled, dropped, published, publish_raised>>
    /\ UNCHANGED notBusVars

\* EventSubscription._process_events: CancelledError at its await ends the task
ConsumerCancelled(i) ==
    /\ i \in DOMAIN subscriptions
    /\ subscriptions[i].task = "cancelling"
    /\ subscriptions' = [subscriptions EXCEPT ![i].task = "done"]
    /\ UNCHANGED <<event_history, subscription_counter, shutdown_flag, lock,
                   unsub_id, shutdown_pc, handled, dropped, published,
                   publish_raised>>
    /\ UNCHANGED bus_calls
    /\ UNCHANGED notBusVars

\* EventManager.unsubscribe with an id that is not in the table: the lock is
\* taken and released, nothing else happens
UnsubscribeUnknown(i) ==
    /\ lock = "free"
    /\ shutdown_pc # "want_lock"
    /\ i \notin DOMAIN subscriptions
    /\ bus_calls < MaxBusCalls
    /\ bus_calls' = bus_calls + 1
    /\ UNCHANGED <<subscriptions, event_history, subscription_counter,
                   shutdown_flag, lock, unsub_id, shutdown_pc, handled, dropped,
                   published, publish_raised>>
    /\ UNCHANGED notBusVars

\* unsubscribe returning with the subscription still in the table
UnsubscribeEnd_KeepsSubscription ==
    /\ lock = "unsubscribe"
    /\ subscriptions[unsub_id].task = "done"
    /\ lock' = "free"
    /\ unsub_id' = 0
    /\ UNCHANGED <<subscriptions, event_history, subscription_counter,
                   shutdown_flag, shutdown_pc, handled, dropped, published,
                   publish_raised>>
    /\ UNCHANGED bus_calls
    /\ UNCHANGED notBusVars

\* EventManager.unsubscribe after the await: the subscription is deleted and
\* the lock released
UnsubscribeEnd ==
    /\ lock = "unsubscribe"
    /\ subscriptions[unsub_id].task = "done"
    /\ subscriptions' = [i \in DOMAIN subscriptions \ {unsub_id} |->
                            subscriptions[i]]
    /\ lock' = "free"
    /\ unsub_id' = 0
    /\ UNCHANGED <<event_history, subscription_counter, shutdown_flag,
                   shutdown_pc, handled, dropped, published, publish_raised>>
    /\ UNCHANGED bus_calls
    /\ UNCHANGED notBusVars

\* EventManager.shutdown once it has the lock: with no subscription it clears
\* and returns; with one it awaits self.unsubscribe(id), which awaits the lock
\* that shutdown itself holds (asyncio.Lock is not reentrant)
ShutdownBody ==
    IF DOMAIN subscriptions = {}
    THEN /\ shutdown_pc' = "returned"
         /\ event_history' = <<>>
         /\ lock' = "free"
    ELSE /\ shutdown_pc' = "in_unsubscribe"
         /\ lock' = "shutdown"
         /\ UNCHANGED event_history

\* EventManager.shutdown is called: the flag is set and the lock taken, or
\* awaited while another operation holds it
ShutdownCall ==
    /\ shutdown_pc = "idle"
    /\ bus_calls < MaxBusCalls
    /\ bus_calls' = bus_calls + 1
    /\ shutdown_flag' = TRUE
    /\ IF lock = "free"
       THEN ShutdownBody
       ELSE /\ shutdown_pc' = "want_lock"
            /\ UNCHANGED <<lock, event_history>>
    /\ UNCHANGED <<subscriptions, subscription_counter, unsub_id, handled,
                   dropped, published, publish_raised>>
    /\ UNCHANGED notBusVars

\* EventManager.shutdown gets the lock it was waiting for
ShutdownLocked ==
    /\ shutdown_pc = "want_lock"
    /\ lock = "free"
    /\ ShutdownBody
    /\ UNCHANGED <<subscriptions, subscription_counter, shutdown_flag, unsub_id,
                   handled, dropped, published, publish_raised>>
    /\ UNCHANGED bus_calls
    /\ UNCHANGED notBusVars

BusNext ==
    \/ Publish
    \/ PublishAfterShutdown
    \/ Subscribe
    \/ \E i \in SubIds : Consume(i)
    \/ \E i \in SubIds : UnsubscribeBegin(i)
    \/ \E i \in SubIds : ConsumerCancelled(i)
    \/ \E i \in SubIds : UnsubscribeUnknown(i)
    \/ UnsubscribeEnd
    \/ ShutdownCall
    \/ ShutdownLocked

SpecBus == BusInit /\ [][BusNext]_vars

\* the event loop runs every task that is ready: the consumers and the
\* operations in progress; nothing obliges the callers to publish or subscribe
\* list slicing events[-limit:] as Python does it: the last `limit` items for
\* a positive limit, all but the first -limit for a negative one
SliceFromMinus(seq, limit) ==
    LET n == Len(seq)
        start == IF limit > 0
                 THEN (IF limit >= n THEN 0 ELSE n - limit)
                 ELSE (IF 0 - limit >= n THEN n ELSE 0 - limit)
    IN  SubSeq(seq, start + 1, n)

\* EventManager.get_event_history: `if event_types:` and `if limit:` test
\* truthiness, so an empty list filters nothing and a limit of 0 cuts nothing
GetEventHistory(h, kinds, limit) ==
    LET events == IF kinds.given /\ kinds.value # {}
                  THEN SelectSeq(h, LAMBDA e : e.etype \in kinds.value)
                  ELSE h
    IN  IF limit.given /\ limit.value # 0
        THEN SliceFromMinus(events, limit.value)
        ELSE events

\* the event_types arguments callers pass to get_event_history
HistoryKinds == {NotGiven} \cup {Given(k) : k \in SUBSET EventTypes}

\* the limit arguments callers pass to get_event_history
HistoryLimits == {NotGiven} \cup {Given(n) : n \in 0..(MaxHistory + 1)}

\* EventManager.get_event_history, under the lock
GetEventHistoryCall ==
    /\ lock = "free"
    /\ shutdown_pc # "want_lock"
    /\ \E kinds \in HistoryKinds, limit \in HistoryLimits :
        snapshot' = [taken |-> TRUE, kinds |-> kinds, limit |-> limit,
                     events |-> GetEventHistory(event_history, kinds, limit),
                     of |-> event_history]
    /\ bus_calls < MaxBusCalls
    /\ bus_calls' = bus_calls + 1
    /\ UNCHANGED <<subscriptions, event_history, subscription_counter,
                   shutdown_flag, lock, unsub_id, shutdown_pc, handled, dropped,
                   published, publish_raised>>
    /\ UNCHANGED <<wait_pc, wait_at, wait_size>>
    /\ UNCHANGED notReadVars

\* the bus with its readers: publishers, subscribers with their consumers,
\* and callers of get_event_history
HistoryNext ==
    \/ Publish
    \/ Subscribe
    \/ \E i \in SubIds : Consume(i)
    \/ GetEventHistoryCall

SpecHistory == BusInit /\ [][HistoryNext]_vars

\* wait_for_previous_events, its for loop from the subscriptions after id
\* `from` on: it runs on to the first one whose queue holds an event and
\* sleeps there, or ends
WaitAdvance(from) ==
    LET busy == {i \in DOMAIN subscriptions :
                    i > from /\ subscriptions[i].queue # <<>>}
    IN  IF busy = {}
        THEN /\ wait_pc' = "returned"
             /\ wait_at' = 0
        ELSE /\ wait_pc' = "sleeping"
             /\ wait_at' = CHOOSE i \in busy : \A j \in busy : i <= j

\* wait_for_previous_events is called: the iteration over
\* self._subscriptions.items() begins, without the lock
WaitBegin ==
    /\ wait_pc = "idle"
    /\ bus_calls < MaxBusCalls
    /\ bus_calls' = bus_calls + 1
    /\ wait_size' = Cardinality(DOMAIN subscriptions)
    /\ WaitAdvance(0)
    /\ UNCHANGED <<subscriptions, event_history, subscription_counter,
                   shutdown_flag, lock, unsub_id, shutdown_pc, handled, dropped,
                   published, publish_raised>>
    /\ UNCHANGED snapshot
    /\ UNCHANGED notReadVars

\* asyncio.sleep(0.1) is over and the for loop asks the dict iterator for the
\* next item: a dict whose size has changed makes it raise RuntimeError
WaitResume ==
    /\ wait_pc = "sleeping"
    /\ IF Cardinality(DOMAIN subscriptions) # wait_size
       THEN /\ wait_pc' = "raised"
            /\ wait_at' = 0
       ELSE WaitAdvance(wait_at)
    /\ UNCHANGED wait_size
    /\ UNCHANGED busVars
    /\ UNCHANGED snapshot
    /\ UNCHANGED notReadVars

\* the bus with a caller of wait_for_previous_events
WaitNext ==
    \/ BusNext
    \/ WaitBegin
    \/ WaitResume

SpecWait == BusInit /\ [][WaitNext]_vars

BusFairness ==
    /\ \A i \in SubIds : WF_vars(Consume(i))
    /\ \A i \in SubIds : WF_vars(ConsumerCancelled(i))
    /\ WF_vars(UnsubscribeEnd)
    /\ WF_vars(ShutdownLocked)

FairSpecBus == SpecBus /\ BusFairness

\* ------------------------------------------------- claims on the event bus

\* a publish() call on a bus that is not shut down
PublishStep == published' = published + 1 /\ ~shutdown_flag

\* the event that call published (the newest retained one)
NewEvent == event_history'[Len(event_history')]

C3_Delivery(i) ==
    IF ~Matches(subscriptions[i], NewEvent)
    THEN subscriptions'[i] = subscriptions[i] /\ dropped'[i] = dropped[i]
    ELSE IF subscriptions[i].queue_size >= 1
            /\ Len(subscriptions[i].queue) >= subscriptions[i].queue_size
    THEN subscriptions'[i] = subscriptions[i] /\ dropped'[i] = dropped[i] + 1
    ELSE /\ subscriptions'[i].queue = Append(subscriptions[i].queue, NewEvent)
         /\ dropped'[i] = dropped[i]

HandlerRaised(i) ==
    /\ Len(handled'[i]) = Len(handled[i]) + 1
    /\ handled'[i][Len(handled'[i])].raised

\* C4: a handler that raises on one event does not stop its subscription's
\* consumer loop (the task keeps running and the events still queued stay
\* queued for it, each later one being passed to the handler) and touches no
\* other subscriber: their queues and handled events are as they were.
C4_HandlerErrorIsolated ==
    /\ [][\A i \in SubIds : HandlerRaised(i) =>
            /\ i \in DOMAIN subscriptions'
            /\ subscriptions'[i].task = "running"
            /\ subscriptions'[i].active
            /\ subscriptions'[i].queue = Tail(subscriptions[i].queue)
            /\ \A j \in DOMAIN subscriptions \ {i} :
                    subscriptions'[j] = subscriptions[j]
                    /\ handled'[j] = handled[j]]_vars
    /\ [](\A i \in DOMAIN subscriptions :
            subscriptions[i].active =>
                /\ subscriptions[i].task = "running"
                /\ subscriptions[i].queue # <<>> => ENABLED Consume(i))

\* a handler raised on its first event, was passed a later one, and another
\* subscriber was passed the event it raised on
C4_Witness ==
    \E i, j \in SubIds :
        /\ i # j
        /\ Len(handled[i]) >= 2
        /\ handled[i][1].raised
        /\ Len(handled[j]) >= 1
        /\ handled[j][1].event = handled[i][1].event

\* C5 (as claimed): shutdown(), called with any number of active
\* subscriptions, eventually returns, with every consumer task stopped and the
\* subscription table empty.
C5_ShutdownReturns ==
    shutdown_flag ~> (shutdown_pc = "returned")

\* ------------------------------------------------------ conversation loop

LoopInit ==
    /\ BusIdle
    /\ LoopIdle
    /\ ExecIdle
    /\ SesIdle
    /\ ReadIdle
    /\ RegIdle
    /\ SchemaIdle
    /\ DbIdle
    /\ variant \in Variants
    /\ approval_mode \in ApprovalModes

\* LLMClientSession.chat_message_stream / LLMClient.send_message_stream, up to
\* the loop: the system prompt on an empty history, then the user message
StartTask ==
    /\ UNCHANGED notLoopVars
    /\ pc \in {"idle", "done", "error"}
    /\ requests < MaxTurns
    /\ history' = (IF variant = "src"
                   THEN Append(IF history = <<>> THEN <<SystemMsg>> ELSE history,
                               UserMsg)
                   ELSE <<SystemMsg, UserMsg>>)
    /\ pc' = "await_model"
    /\ final_response' = None
    /\ response' = [content |-> None, tool_calls |-> NoCalls]
    /\ finish_reason' = None
    /\ req_idx' = 1
    /\ results' = <<>>
    /\ body_runs' = <<>>
    /\ UNCHANGED <<variant, approval_mode, requests, next_id>>
    /\ UNCHANGED <<aggregates, token_counts>>
    /\ loop_failure' = "none"

\* the model request at the top of the loop
SendRequest ==
    /\ UNCHANGED notLoopVars
    /\ pc = "await_model"
    /\ requests < MaxTurns
    /\ requests' = requests + 1
    /\ pc' = "streaming"
    /\ UNCHANGED <<variant, approval_mode, history, response, finish_reason,
                   req_idx, results, body_runs, final_response, next_id>>
    /\ UNCHANGED <<aggregates, token_counts>>
    /\ UNCHANGED loop_failure

\* where the loop calls _token_counts: LLMClient right after the aggregation,
\* before the tool calls are scheduled; ContentGenerator at the end of the
\* turn, after schedule has returned
TokenCountBeforeTools(v) == v = "src"

\* the stream ends and is aggregated: the token counts are published here or
\* at the end of the turn, the assistant message is appended, then either the
\* tool calls are scheduled or the turn ends
ReceiveResponse ==
    /\ UNCHANGED notLoopVars
    /\ pc = "streaming"
    /\ \E c \in Contents, fr \in FinishReasons, n \in 0..MaxToolCalls :
        /\ next_id + n - 1 <= MaxToolCalls
        /\ \E l \in CallLists(next_id, n) :
            LET m == [content |-> c,
                      tool_calls |-> IF n = 0 THEN NoCalls ELSE CallList(l)]
            IN  /\ response' = m
                /\ finish_reason' = fr
                /\ next_id' = next_id + n
                /\ history' = SetAssistantMsg(history, m)
                /\ req_idx' = 1
                /\ results' = <<>>
                /\ body_runs' = <<>>
                /\ IF CallsTruthy(m.tool_calls)
                   THEN /\ pc' = "schedule"
                        /\ UNCHANGED final_response
                   ELSE IF LoopBreaks(variant, m, fr)
                   THEN /\ pc' = "done"
                        /\ final_response' = m.content
                   ELSE /\ pc' = "await_model"
                        /\ UNCHANGED final_response
    /\ UNCHANGED <<variant, approval_mode, requests>>
    /\ aggregates' = aggregates + 1
    /\ token_counts' = IF TokenCountBeforeTools(variant)
                          \/ ~CallsTruthy(response'.tool_calls)
                       THEN token_counts + 1 ELSE token_counts
    /\ UNCHANGED loop_failure

\* the completion transport raises (litellm.acompletion or the stream): neither
\* loop catches it
TransportFails ==
    /\ UNCHANGED notLoopVars
    /\ pc = "streaming"
    /\ pc' = "error"
    /\ UNCHANGED <<variant, approval_mode, history, response, finish_reason,
                   req_idx, results, body_runs, final_response, requests, next_id>>
    /\ UNCHANGED <<aggregates, token_counts>>
    /\ loop_failure' = "transport"

\* the loop returning None, as after a normal end, when the aggregation
\* yields nothing
AggregateNone_ReturnsNone ==
    /\ UNCHANGED notLoopVars
    /\ pc = "streaming"
    /\ pc' = "done"
    /\ loop_failure' = "aggregate"
    /\ UNCHANGED <<variant, approval_mode, history, response, finish_reason,
                   req_idx, results, body_runs, final_response, requests, next_id>>
    /\ UNCHANGED <<aggregates, token_counts>>

\* litellm.stream_chunk_builder returns None: LLMClient breaks out of the loop
\* and reads final_response, which it never bound; ContentGenerator reads
\* response_.choices of None
AggregateNone ==
    /\ UNCHANGED notLoopVars
    /\ pc = "streaming"
    /\ pc' = "error"
    /\ UNCHANGED <<variant, approval_mode, history, response, finish_reason,
                   req_idx, results, body_runs, final_response, requests, next_id>>
    /\ UNCHANGED <<aggregates, token_counts>>
    /\ loop_failure' = "aggregate"

\* schedule without its confirmation branch: every found tool is executed
ScheduleOneWith_NoConfirm(req, mode, tool_raises, confirm_result) ==
    IF req.name = ""
    THEN [raised |-> FALSE, ran |-> FALSE, asked |-> FALSE,
          result |-> ResultDict(req, "Tool name is missing in the request.")]
    ELSE IF req.name \notin RegisteredTools
    THEN [raised |-> FALSE, ran |-> FALSE, asked |-> FALSE,
          result |-> ResultDict(req, "Tool not found: ")]
    ELSE IF ~req.args_ok
    THEN [raised |-> TRUE, ran |-> FALSE, asked |-> FALSE,
          result |-> ResultDict(req, None)]
    ELSE [raised |-> FALSE, ran |-> TRUE, asked |-> FALSE,
          result |-> ResultDict(req, ExecuteTool(tool_raises))]

\* one pass of the for loop of ToolCallManager.schedule over request `req`,
\* given what _confirm_tool_execution returns when it is called: what the pass
\* appends to results, whether it asked for confirmation, whether the tool
\* body ran, whether the pass raised
ScheduleOneWith(req, mode, tool_raises, confirm_result) ==
    IF req.name = ""
    THEN [raised |-> FALSE, ran |-> FALSE, asked |-> FALSE,
          result |-> ResultDict(req, "Tool name is missing in the request.")]
    ELSE IF req.name \notin RegisteredTools
    THEN [raised |-> FALSE, ran |-> FALSE, asked |-> FALSE,
          result |-> ResultDict(req, "Tool not found: ")]
    ELSE IF ~req.args_ok
    THEN [raised |-> TRUE, ran |-> FALSE, asked |-> FALSE,
          result |-> ResultDict(req, None)]
    ELSE IF mode = "yolo" \/ ~ShouldConfirmExecute(req.name)
    THEN [raised |-> FALSE, ran |-> TRUE, asked |-> FALSE,
          result |-> ResultDict(req, ExecuteTool(tool_raises))]
    ELSE IF confirm_result.confirmed
    THEN [raised |-> FALSE, ran |-> TRUE, asked |-> TRUE,
          result |-> ResultDict(req, ExecuteTool(tool_raises))]
    ELSE [raised |-> FALSE, ran |-> FALSE, asked |-> TRUE,
          result |-> ResultDict(req, "Tool execution cancelled by user.")]

\* one pass of the for loop of ToolCallManager.schedule over request `req`
ScheduleOne(req, mode, tool_raises) ==
    ScheduleOneWith(req, mode, tool_raises, ConfirmToolExecution)

\* ToolCallManager.schedule, one request of its for loop
ScheduleStep ==
    /\ UNCHANGED notLoopVars
    /\ pc = "schedule"
    /\ req_idx <= Len(response.tool_calls.list)
    /\ \E tool_raises \in BOOLEAN :
        LET req == response.tool_calls.list[req_idx]
            out == ScheduleOne(req, approval_mode, tool_raises)
        IN  /\ tool_raises => out.ran
            /\ IF out.raised
               THEN /\ pc' = "error"
                    /\ loop_failure' = "dispatch"
                    /\ UNCHANGED <<results, req_idx, body_runs>>
               ELSE /\ pc' = pc
                    /\ UNCHANGED loop_failure
                    /\ results' = Append(results, out.result)
                    /\ req_idx' = req_idx + 1
                    /\ body_runs' = IF out.ran THEN Append(body_runs, req.id)
                                    ELSE body_runs
    /\ UNCHANGED <<variant, approval_mode, history, response, finish_reason,
                   final_response, requests, next_id>>
    /\ UNCHANGED <<aggregates, token_counts>>

\* schedule returns: the tool messages are appended and the turn ends
ScheduleReturn ==
    /\ UNCHANGED notLoopVars
    /\ pc = "schedule"
    /\ req_idx > Len(response.tool_calls.list)
    /\ history' = AppendToolMsgs(history, results)
    /\ IF LoopBreaks(variant, response, finish_reason)
       THEN /\ pc' = "done"
            /\ final_response' = response.content
       ELSE /\ pc' = "await_model"
            /\ UNCHANGED final_response
    /\ UNCHANGED <<variant, approval_mode, response, finish_reason, req_idx,
                   results, body_runs, requests, next_id>>
    /\ UNCHANGED aggregates
    /\ token_counts' = IF TokenCountBeforeTools(variant)
                       THEN token_counts ELSE token_counts + 1
    /\ UNCHANGED loop_failure

LoopNext ==
    \/ StartTask
    \/ SendRequest
    \/ ReceiveResponse
    \/ TransportFails
    \/ AggregateNone
    \/ ScheduleStep
    \/ ScheduleReturn

SpecLoop == LoopInit /\ [][LoopNext]_vars

\* ------------------------------------------- claims on the conversation loop

\* a turn has been received and aggregated (finish_reason is bound)
TurnReceived == finish_reason \in FinishReasons

\* the step that receives and aggregates a response
ReceiveStep == pc = "streaming" /\ pc' \notin {"streaming", "error"}

\* the ids of a list of tool calls, in order
CallIds(calls) == [i \in 1..Len(calls) |-> calls[i].id]

\* index of the first assistant message after position i, or Len(h) + 1
NextAssistant(h, i) ==
    IF \E j \in (i + 1)..Len(h) : h[j].role = "assistant"
    THEN CHOOSE j \in (i + 1)..Len(h) :
            /\ h[j].role = "assistant"
            /\ \A k \in (i + 1)..(j - 1) : h[k].role # "assistant"
    ELSE Len(h) + 1

\* the tool_call_ids of the tool messages among h[from..to], in order
RECURSIVE ToolIdsBetween(_, _, _)
ToolIdsBetween(h, from, to) ==
    IF from > to THEN <<>>
    ELSE (IF h[from].role = "tool" THEN <<h[from].tool_call_id>> ELSE <<>>)
         \o ToolIdsBetween(h, from + 1, to)

\* every assistant message with tool calls is followed, before the next
\* assistant message, by exactly the tool messages of its calls, in order
HistoryWellFormed(h) ==
    \A i \in 1..Len(h) :
        (h[i].role = "assistant" /\ h[i].tool_calls # <<>>) =>
            ToolIdsBetween(h, i + 1, NextAssistant(h, i) - 1) = CallIds(h[i].tool_calls)

\* the history is the one later requests are built from: between turns, and not
\* the local list of a ContentGenerator call that has raised
HistoryAtRest == pc # "schedule" /\ ~(variant = "lib" /\ pc = "error")

\* C1 (as claimed): after any sequence of turns, every assistant message of the
\* history that carries tool calls is followed, before any later assistant
\* message, by exactly one tool message per tool_call_id, in request order.
C1_HistoryInvariant == HistoryAtRest => HistoryWellFormed(history)

\* the response ends the conversation as the claim states it: content,
\* finish_reason "stop", no tool calls
Terminal(m, fr) == Truthy(m.content) /\ fr = "stop" /\ ~CallsTruthy(m.tool_calls)

\* C6 (as claimed): the loop returns a final answer if and only if the turn's
\* response has content, finish_reason "stop" and no tool calls, the value
\* returned is that content, and it never returns from a turn with tool calls.
C6_ReturnsIffTerminal ==
    /\ pc = "done" => (Terminal(response, finish_reason)
                        /\ final_response = response.content)
    /\ (pc = "await_model" /\ TurnReceived) => ~Terminal(response, finish_reason)

\* the history the claimed append rule yields for response m
ClaimedAppend(h, m) ==
    IF CallsTruthy(m.tool_calls) /\ Truthy(m.content)
    THEN Append(h, AssistantMsg(m.content, m.tool_calls.list))
    ELSE IF Truthy(m.content)
    THEN Append(h, AssistantMsg(m.content, <<>>))
    ELSE IF CallsTruthy(m.tool_calls)
    THEN Append(h, AssistantMsg(None, m.tool_calls.list))
    ELSE h

\* C7 (as claimed): for every aggregated response the loop appends the one
\* assistant message its parts determine: both; content only; tool calls with
\* null content when the content is null or empty; nothing when neither.
C7_AppendRule ==
    [][ReceiveStep => history' = ClaimedAppend(history, response')]_vars

\* the last received response carries neither content nor tool calls
NeitherTurn ==
    TurnReceived /\ ~Truthy(response.content) /\ ~CallsTruthy(response.tool_calls)

\* C8 (as claimed): after a response with neither content nor tool calls the
\* loop terminates the turn and issues no further model request for the task.
C8_NoFurtherRequest == NeitherTurn => pc \notin {"await_model", "streaming"}

\* C8 (amended): a response with neither content nor tool calls leaves the
\* history exactly as it was before the turn, and the loop goes back to the top
\* of its while loop, where it issues the next model request.
C8_NeitherKeepsHistoryAndLoops ==
    [][(ReceiveStep /\ NeitherTurn') =>
            (history' = history /\ pc' = "await_model"
             /\ final_response' = final_response)]_vars

\* a neither/nor response has been received and the loop is back at the top
C8_Witness == NeitherTurn /\ pc = "await_model" /\ requests >= 1

\* C9 (as claimed): no tool-level failure aborts the loop: dispatch of a turn's
\* tool calls (unknown tool, raising body, denied confirmation, argument string
\* that is not valid JSON) always goes on to the append of its results.
C9_DispatchNeverAborts ==
    [][pc = "schedule" => pc' \in {"schedule", "await_model", "done"}]_vars

\* ------------------------------------------------------------ tool dispatch

\* tool calls passed to one execute_tools_parallel / schedule call
MaxExecCalls == 2

Dispatchers == {"ToolExecutor", "ToolCallManager"}

\* the middleware lists add_middleware can have built on the registered
\* tools by the time of a dispatch (BaseTool starts with none)
ToolMiddlewareLists == {<<>>, <<"m1">>, <<"m1", "m2">>}

\* the values a configuration can give the approval policy: TPERMISSION
PolicyModes == {"yolo", "default", "none"}

\* ToolRegistry.get_tool
GetTool(name) == IF name \in RegisteredTools THEN name ELSE None

\* a lookup miss reported as a success
NotFoundResult_NotError(call) ==
    [tool_call_id |-> call.id, content |-> "Tool not found", is_error |-> FALSE,
     execution_time_ms |-> 0]

\* ToolExecutor.execute_tool: the ToolResult for a tool the registry lacks
NotFoundResult(call) ==
    [tool_call_id |-> call.id, content |-> "Tool not found", is_error |-> TRUE,
     execution_time_ms |-> 0]

\* ToolExecutor.execute_tool past the TOOL_CALL_REQUEST event. ToolRegistry
\* sets _tools only and has no middleware attribute, so reading
\* self.registry.middleware raises AttributeError in the try block, before the
\* tool body, and again in the except block, before any on_error hook or error
\* result: the exception leaves execute_tool
ExecuteToolTry(call) ==
    [kind |-> "raise", ran |-> FALSE, value |-> "AttributeError"]

\* ToolExecutor._update_execution_stats (the time counters left out)
UpdateExecutionStats(stats, tool_name, success) ==
    [stats EXCEPT ![tool_name] =
        [total_executions |-> @.total_executions + 1,
         successful_executions |->
            IF success THEN @.successful_executions + 1
            ELSE @.successful_executions,
         failed_executions |->
            IF success THEN @.failed_executions
            ELSE @.failed_executions + 1]]

\* the statistics after execute_tool went past its request event: a try block
\* that reaches its end counts the call with success=True, whatever is_error
\* its result has; an exception that leaves execute_tool from the except
\* handler's first line has passed neither _update_execution_stats call
StatsAfter(stats, call, out) ==
    IF out.kind = "raise" THEN stats
    ELSE UpdateExecutionStats(stats, call.name, TRUE)

\* execute_tools_parallel: the ToolResult standing for a task that raised
GatherErrorResult(call) ==
    [tool_call_id |-> call.id, content |-> "Tool execution failed",
     is_error |-> TRUE, execution_time_ms |-> 0]

\* execute_tools_parallel: processed_results from what gather returned
ProcessedResults(calls, outs) ==
    [i \in 1..Len(calls) |->
        IF outs[i].kind = "raise" THEN GatherErrorResult(calls[i])
        ELSE outs[i].value]

NoOutcome == [kind |-> "none", ran |-> FALSE, value |-> None]

\* the status a ToolCall is constructed with when none is passed
DefaultStatus == "pending"

\* a tool call handed to a dispatcher: id, tool name, whether its argument
\* string is valid JSON, whether its tool's body raises when run, and the
\* status field of the (frozen) ToolCall
ExecCallsWithId(i) ==
    {[id |-> i, name |-> nm, args_ok |-> ok, raises |-> r,
      status |-> DefaultStatus] :
        nm \in RegisteredTools, ok \in BOOLEAN, r \in BOOLEAN}
    \cup {[id |-> i, name |-> nm, args_ok |-> TRUE, raises |-> FALSE,
            status |-> DefaultStatus] :
            nm \in ToolNames \ RegisteredTools}

RECURSIVE ExecCallLists(_, _)
ExecCallLists(first, n) ==
    IF n = 0 THEN {<<>>}
    ELSE {<<c>> \o rest : c \in ExecCallsWithId(first),
                           rest \in ExecCallLists(first + 1, n - 1)}

ExecInit ==
    /\ BusIdle
    /\ LoopIdle
    /\ SesIdle
    /\ ReadIdle
    /\ RegIdle
    /\ SchemaIdle
    /\ DbIdle
    /\ variant = "src"
    /\ approval_mode \in PolicyModes
    /\ dispatcher \in Dispatchers
    /\ ExecAtRest

\* execute_tools_parallel(tool_calls) / schedule(requests) is called; the
\* executor gets parsed argument maps
ExecBegin ==
    /\ exec_pc = "idle"
    /\ \E n \in 0..MaxExecCalls : \E l \in ExecCallLists(1, n) :
        /\ dispatcher = "ToolExecutor" => \A i \in 1..n : l[i].args_ok
        /\ tool_calls' = l
        /\ task_pc' = [i \in 1..n |-> "pending"]
        /\ outcomes' = [i \in 1..n |-> NoOutcome]
    /\ exec_pc' = "running"
    /\ UNCHANGED <<dispatcher, exec_results, tool_runs, exec_events>>
    /\ tool_middleware' \in ToolMiddlewareLists
    /\ UNCHANGED <<exec_confirms, exec_trace>>
    /\ UNCHANGED execution_stats
    /\ UNCHANGED notExecVars

\* execute_tool, task i, up to its first await: a lookup miss returns the
\* is_error result at once, a hit publishes TOOL_CALL_REQUEST
ExecLookup(i) ==
    /\ dispatcher = "ToolExecutor"
    /\ exec_pc = "running"
    /\ i \in 1..Len(tool_calls)
    /\ task_pc[i] = "pending"
    /\ IF GetTool(tool_calls[i].name) = None
       THEN /\ task_pc' = [task_pc EXCEPT ![i] = "done"]
            /\ outcomes' = [outcomes EXCEPT ![i] =
                    [kind |-> "return", ran |-> FALSE,
                     value |-> NotFoundResult(tool_calls[i])]]
            /\ UNCHANGED exec_events
       ELSE /\ task_pc' = [task_pc EXCEPT ![i] = "requested"]
            /\ exec_events' = Append(exec_events,
                    [type |-> "tool_call_request", id |-> tool_calls[i].id])
            /\ UNCHANGED outcomes
    /\ UNCHANGED <<dispatcher, tool_calls, exec_results, exec_pc, tool_runs>>
    /\ UNCHANGED <<exec_confirms, tool_middleware, exec_trace>>
    /\ UNCHANGED execution_stats
    /\ UNCHANGED notExecVars

\* execute_tool, task i, from the confirmation check to its end
ExecRun(i) ==
    /\ dispatcher = "ToolExecutor"
    /\ exec_pc = "running"
    /\ i \in 1..Len(tool_calls)
    /\ task_pc[i] = "requested"
    /\ LET out == ExecuteToolTry(tool_calls[i])
       IN  /\ outcomes' = [outcomes EXCEPT ![i] = out]
           /\ tool_runs' = IF out.ran THEN Append(tool_runs, tool_calls[i].id)
                           ELSE tool_runs
    /\ task_pc' = [task_pc EXCEPT ![i] = "done"]
    /\ UNCHANGED <<dispatcher, tool_calls, exec_results, exec_pc, exec_events>>
    /\ UNCHANGED <<exec_confirms, tool_middleware, exec_trace>>
    /\ execution_stats' = StatsAfter(execution_stats, tool_calls[i],
                                     ExecuteToolTry(tool_calls[i]))
    /\ UNCHANGED notExecVars

\* execute_tools_parallel returning as soon as one task is done (a wait for
\* the first completion in place of gather)
GatherReturn_NoBarrier ==
    /\ dispatcher = "ToolExecutor"
    /\ exec_pc = "running"
    /\ \/ tool_calls = <<>>
       \/ \E i \in 1..Len(tool_calls) : task_pc[i] = "done"
    /\ exec_results' = ProcessedResults(tool_calls, outcomes)
    /\ exec_pc' = "returned"
    /\ UNCHANGED <<dispatcher, tool_calls, task_pc, outcomes, tool_runs, exec_events>>
    /\ UNCHANGED <<exec_confirms, tool_middleware, exec_trace>>
    /\ UNCHANGED execution_stats
    /\ UNCHANGED notExecVars

\* execute_tools_parallel: gather has every task's outcome; exceptions become
\* error results and the list is returned (an empty input returns [])
GatherReturn ==
    /\ dispatcher = "ToolExecutor"
    /\ exec_pc = "running"
    /\ \A i \in 1..Len(tool_calls) : task_pc[i] = "done"
    /\ exec_results' = ProcessedResults(tool_calls, outcomes)
    /\ exec_pc' = "returned"
    /\ UNCHANGED <<dispatcher, tool_calls, task_pc, outcomes, tool_runs, exec_events>>
    /\ UNCHANGED <<exec_confirms, tool_middleware, exec_trace>>
    /\ UNCHANGED execution_stats
    /\ UNCHANGED notExecVars

\* ToolCallManager.schedule called on its own: one request of its for loop
ManagerStep ==
    /\ dispatcher = "ToolCallManager"
    /\ exec_pc = "running"
    /\ Len(exec_results) < Len(tool_calls)
    /\ LET req == tool_calls[Len(exec_results) + 1]
           out == ScheduleOne(req, approval_mode, req.raises)
       IN  IF out.raised
           THEN /\ exec_pc' = "raised"
                /\ UNCHANGED <<exec_results, tool_runs, exec_confirms>>
           ELSE /\ exec_results' = Append(exec_results, out.result)
                /\ tool_runs' = IF out.ran THEN Append(tool_runs, req.id)
                                ELSE tool_runs
                /\ exec_confirms' =
                        IF out.asked
                        THEN Append(exec_confirms,
                                    [id |-> req.id,
                                     confirmed |-> ConfirmToolExecution.confirmed])
                        ELSE exec_confirms
                /\ UNCHANGED exec_pc
    /\ UNCHANGED <<dispatcher, tool_calls, task_pc, outcomes, exec_events>>
    /\ UNCHANGED <<tool_middleware, exec_trace>>
    /\ UNCHANGED execution_stats
    /\ UNCHANGED notExecVars

\* ToolCallManager.schedule returns its results
ManagerReturn ==
    /\ dispatcher = "ToolCallManager"
    /\ exec_pc = "running"
    /\ Len(exec_results) = Len(tool_calls)
    /\ exec_pc' = "returned"
    /\ UNCHANGED <<dispatcher, tool_calls, task_pc, outcomes, exec_results,
                   tool_runs, exec_events>>
    /\ UNCHANGED <<exec_confirms, tool_middleware, exec_trace>>
    /\ UNCHANGED execution_stats
    /\ UNCHANGED notExecVars

\* the names of ToolNames that DevAssisast._configure_llm puts in f_map
FMap == {"read_file"}

\* DevAssisast._resolve_function_calls, one pass of its for loop: a name that
\* is not in f_map is skipped, the arguments are parsed outside the try, an
\* exception of the function becomes the result text
ResolveOne(call) ==
    IF call.name \notin FMap
    THEN [raised |-> FALSE, ran |-> FALSE, skipped |-> TRUE,
          result |-> ResultDict(call, None)]
    ELSE IF ~call.args_ok
    THEN [raised |-> TRUE, ran |-> FALSE, skipped |-> FALSE,
          result |-> ResultDict(call, None)]
    ELSE [raised |-> FALSE, ran |-> TRUE, skipped |-> FALSE,
          result |-> ResultDict(call, IF call.raises THEN "Error: err"
                                      ELSE "result")]

\* a DevAssisast about to resolve the tool calls of a reply
ResolveInit ==
    /\ BusIdle
    /\ LoopIdle
    /\ SesIdle
    /\ ReadIdle
    /\ RegIdle
    /\ SchemaIdle
    /\ DbIdle
    /\ variant = "src"
    /\ approval_mode = "default"
    /\ dispatcher = "DevAssisast"
    /\ ExecAtRest

\* _resolve_function_calls(reply_msg) is called with the reply's tool calls
ResolveBegin ==
    /\ dispatcher = "DevAssisast"
    /\ exec_pc = "idle"
    /\ \E n \in 0..MaxExecCalls : \E l \in ExecCallLists(1, n) :
        /\ tool_calls' = l
        /\ task_pc' = [i \in 1..n |-> "pending"]
        /\ outcomes' = [i \in 1..n |-> NoOutcome]
    /\ exec_pc' = "running"
    /\ UNCHANGED <<dispatcher, exec_results, tool_runs, exec_events,
                   exec_confirms, tool_middleware, exec_trace>>
    /\ UNCHANGED execution_stats
    /\ UNCHANGED notExecVars

\* one pass of the for loop, over the first tool call not yet looked at
ResolveStep ==
    /\ dispatcher = "DevAssisast"
    /\ exec_pc = "running"
    /\ \E i \in 1..Len(tool_calls) :
        /\ task_pc[i] = "pending"
        /\ \A j \in 1..(i - 1) : task_pc[j] = "done"
        /\ LET out == ResolveOne(tool_calls[i])
           IN  IF out.raised
               THEN /\ exec_pc' = "raised"
                    /\ UNCHANGED <<exec_results, tool_runs, task_pc>>
               ELSE /\ task_pc' = [task_pc EXCEPT ![i] = "done"]
                    /\ exec_results' = IF out.skipped THEN exec_results
                                       ELSE Append(exec_results, out.result)
                    /\ tool_runs' = IF out.ran
                                    THEN Append(tool_runs, tool_calls[i].id)
                                    ELSE tool_runs
                    /\ UNCHANGED exec_pc
    /\ UNCHANGED <<dispatcher, tool_calls, outcomes, exec_events, exec_confirms,
                   tool_middleware, exec_trace>>
    /\ UNCHANGED execution_stats
    /\ UNCHANGED notExecVars

\* the for loop is over: the results are returned and run() extends the chat
\* history with them
ResolveReturn ==
    /\ dispatcher = "DevAssisast"
    /\ exec_pc = "running"
    /\ \A i \in 1..Len(tool_calls) : task_pc[i] = "done"
    /\ exec_pc' = "returned"
    /\ UNCHANGED <<dispatcher, tool_calls, task_pc, outcomes, exec_results,
                   tool_runs, exec_events, exec_confirms, tool_middleware,
                   exec_trace>>
    /\ UNCHANGED execution_stats
    /\ UNCHANGED notExecVars

ResolveNext ==
    \/ ResolveBegin
    \/ ResolveStep
    \/ ResolveReturn

SpecResolve == ResolveInit /\ [][ResolveNext]_vars

\* ------------------------------------------------------- the tool registry

\* operations made on the registry over one run of the registry model
MaxRegOps == 4

\* ToolRegistry._register_tool: self._tools[tool.name] = tool
RegisterInto(tools, name, inst) == [tools EXCEPT ![name] = inst]

\* ToolRegistry.get_tool: self._tools.get(name), None for a missing name
RegistryGet(tools, name) ==
    IF tools[name] = 0 THEN [found |-> FALSE, tool |-> 0]
    ELSE [found |-> TRUE, tool |-> tools[name]]

RegInit ==
    /\ BusIdle
    /\ LoopIdle
    /\ ExecIdle
    /\ SesIdle
    /\ ReadIdle
    /\ RegIdle
    /\ SchemaIdle
    /\ DbIdle
    /\ variant = "src"
    /\ approval_mode = "default"

\* _register_tool(tool) with a tool just constructed
RegisterNewTool ==
    /\ reg_ops < MaxRegOps
    /\ reg_ops' = reg_ops + 1
    /\ \E name \in RegNames :
        /\ reg_tools' = RegisterInto(reg_tools, name, reg_next)
        /\ reg_registered' = [reg_registered EXCEPT ![name] = reg_next]
    /\ reg_next' = reg_next + 1
    /\ UNCHANGED <<reg_raised, reg_config>>
    /\ UNCHANGED notRegVars

\* _register_tool(tool) with a tool that is in the registry already
RegisterSameTool ==
    /\ reg_ops < MaxRegOps
    /\ reg_ops' = reg_ops + 1
    /\ \E name \in RegNames :
        /\ reg_tools[name] # 0
        /\ reg_tools' = RegisterInto(reg_tools, name, reg_tools[name])
        /\ reg_registered' = [reg_registered EXCEPT ![name] = reg_tools[name]]
    /\ UNCHANGED <<reg_next, reg_raised, reg_config>>
    /\ UNCHANGED notRegVars

\* register_builtin_tools: ReadFileTool() is constructed and passed to
\* registry.register_tool, a method ToolRegistry does not have: AttributeError
\* leaves the function before anything is inserted
RegisterBuiltinTools ==
    /\ reg_ops < MaxRegOps
    /\ reg_ops' = reg_ops + 1
    /\ reg_registered' = [reg_registered EXCEPT !["read_file"] = reg_next]
    /\ reg_next' = reg_next + 1
    /\ reg_raised' = TRUE
    /\ UNCHANGED <<reg_tools, reg_config>>
    /\ UNCHANGED notRegVars

RegNext ==
    \/ RegisterNewTool
    \/ RegisterSameTool
    \/ RegisterBuiltinTools

SpecRegistry == RegInit /\ [][RegNext]_vars

\* register_tools: tool.__class__.__name__ of the built-in tool of a name
ClassName(name) ==
    IF name = "read_file" THEN "ReadFileTool"
    ELSE IF name = "write_file" THEN "WriteFileTool"
    ELSE "ListDirectoryTool"

\* register_tools: is_enabled of a built-in tool under a config; the exclude
\* list is tested first, core_tools only when it is not None
IsEnabled(name, config) ==
    IF name \in config.exclude_tools \/ ClassName(name) \in config.exclude_tools
    THEN FALSE
    ELSE IF config.core_tools.given THEN name \in config.core_tools.value
    ELSE TRUE

\* the exclude_tools lists of the configs passed: tool names and class names
ExcludeLists == SUBSET {"read_file", "WriteFileTool"}

\* the core_tools of the configs passed: None, or a list of names
CoreToolLists ==
    {NotGiven} \cup {Given(c) : c \in SUBSET {"read_file", "write_file"}}

\* ToolRegistry.register_tools(config, target_dir): the dict is cleared, then
\* the first import, `from .directory_tools import ListDirectoryTool`, raises
\* (that module imports lib.config and .base.Tool, neither of which exists; the
\* later `.shell_tools` is no module of the package either), so no tool is
\* constructed and the for loop with is_enabled is never entered
RegisterTools ==
    /\ reg_ops < MaxRegOps
    /\ reg_ops' = reg_ops + 1
    /\ \E ex \in ExcludeLists, core \in CoreToolLists :
        reg_config' = [at |-> reg_ops', exclude_tools |-> ex, core_tools |-> core]
    /\ reg_tools' = [n \in RegNames |-> 0]
    /\ reg_registered' = [n \in RegNames |-> 0]
    /\ reg_raised' = TRUE
    /\ UNCHANGED reg_next
    /\ UNCHANGED notRegVars

\* a registry that tools are put in by hand and by register_tools
RegToolsNext ==
    \/ RegisterNewTool
    \/ RegisterSameTool
    \/ RegisterTools

SpecRegisterTools == RegInit /\ [][RegToolsNext]_vars

\* ------------------------------------------------------------- database

\* Database calls made, at most
MaxDbOps == 4

\* rows the table holds before the first call, at most
MaxInitialRows == 2

\* the arguments of an insert_data call: values sqlite stores; an app_mode
\* sqlite cannot bind (cursor.execute raises inside the try block); a
\* chat_history json.dumps cannot serialise (raises before the try block)
InsertArgs == {"storable", "unbindable", "unserialisable"}

\* CREATE TABLE that replaces a table that exists
CreateTable_Replaces(exists, rows) == [table |-> TRUE, rows |-> 0]

\* CREATE TABLE IF NOT EXISTS llmaudit, committed
CreateTable(exists, rows) ==
    [table |-> TRUE, rows |-> IF exists THEN rows ELSE 0]

\* insert_data after its json.dumps calls: the INSERT, then commit, or
\* rollback when the statement raised (no table, or a value it cannot bind)
InsertRow(exists, rows, args) ==
    IF exists /\ args = "storable"
    THEN [status |-> "True", rows |-> rows + 1]
    ELSE [status |-> "False", rows |-> rows]

\* the database file before the first call: absent, or left by earlier runs
DbInit ==
    /\ BusIdle
    /\ LoopIdle
    /\ ExecIdle
    /\ SesIdle
    /\ ReadIdle
    /\ RegIdle
    /\ SchemaIdle
    /\ variant = "src"
    /\ approval_mode = "default"
    /\ db_table \in BOOLEAN
    /\ db_rows \in 0..MaxInitialRows
    /\ ~db_table => db_rows = 0
    /\ db_initial = db_rows
    /\ db_returns = <<>>

\* Database.initilize
Initilize ==
    /\ Len(db_returns) < MaxDbOps
    /\ LET db == CreateTable(db_table, db_rows)
       IN  /\ db_table' = db.table
           /\ db_rows' = db.rows
    /\ db_returns' = Append(db_returns, [call |-> "initilize", outcome |-> "True"])
    /\ UNCHANGED db_initial
    /\ UNCHANGED notDbVars

\* Database.insert_data, in a sequence of calls that began with initilize
InsertData ==
    /\ Len(db_returns) < MaxDbOps
    /\ db_returns # <<>>
    /\ \E args \in InsertArgs :
        IF args = "unserialisable"
        THEN /\ db_returns' = Append(db_returns,
                    [call |-> "insert_data", outcome |-> "TypeError"])
             /\ UNCHANGED db_rows
        ELSE LET ins == InsertRow(db_table, db_rows, args)
             IN  /\ db_rows' = ins.rows
                 /\ db_returns' = Append(db_returns,
                        [call |-> "insert_data", outcome |-> ins.status])
    /\ UNCHANGED <<db_table, db_initial>>
    /\ UNCHANGED notDbVars

DbNext ==
    \/ Initilize
    \/ InsertData

SpecDatabase == DbInit /\ [][DbNext]_vars

\* -------------------------------------------------------- schema export

\* parameters a tool declares, at most
MaxParams == 2

\* the provider conventions callers name: the default, the three named ones,
\* and one the code does not know
Providers == {"litellm", "openai", "anthropic", "google", "mistral"}

\* the two methods that export a tool's schema
Exporters == {"ToolSchema.get_tool_schema", "BaseTool.get_provider_schema"}

ParamNames == <<"path", "encoding", "limit">>

\* the parameter lists tools declare
ParamLists == {SubSeq(ParamNames, 1, n) : n \in 0..MaxParams}

\* the elements of a list
Elements(seq) == {seq[k] : k \in 1..Len(seq)}

\* the required lists a tool with the parameters ps can declare
RequiredLists(ps) == {SubSeq(ps, 1, n) : n \in 0..Len(ps)}
                        \cup {SubSeq(ps, n, Len(ps)) : n \in 1..Len(ps)}

\* the tools whose schema is exported
SchemaTools ==
    {t \in [name : {"read_file", "write_file"},
            description : {"Read a file", "Write a file"},
            parameters : ParamLists,
            required : UNION {RequiredLists(q) : q \in ParamLists}] :
        Elements(t.required) \subseteq Elements(t.parameters)}

\* ToolSchema.get_tool_schema: the generic format nests everything under
\* "function"; the formats of the three named providers are empty dicts
ToolSchemaExport(t, provider) ==
    IF provider \in {"openai", "anthropic", "google"}
    THEN EmptyDict
    ELSE [type |-> "function",
          function |->
            [name |-> t.name, description |-> t.description,
             parameters |-> [type |-> "object", properties |-> t.parameters,
                             required |-> t.required]]]

\* BaseTool.get_provider_schema: one shape per named provider, a flat one
\* for the generic format
BaseToolExport(t, provider) ==
    IF provider = "openai"
    THEN [type |-> "function",
          function |->
            [name |-> t.name, description |-> t.description,
             parameters |-> [type |-> "object", properties |-> t.parameters,
                             required |-> t.required]]]
    ELSE IF provider = "anthropic"
    THEN [name |-> t.name, description |-> t.description,
          input_schema |-> [type |-> "object", properties |-> t.parameters,
                            required |-> t.required]]
    ELSE IF provider = "google"
    THEN [name |-> t.name, description |-> t.description,
          parameters |-> [type |-> "object", properties |-> t.parameters,
                          required |-> t.required]]
    ELSE [name |-> t.name, description |-> t.description,
          parameters |-> t.parameters, required |-> t.required]

SchemaInit ==
    /\ BusIdle
    /\ LoopIdle
    /\ ExecIdle
    /\ SesIdle
    /\ ReadIdle
    /\ RegIdle
    /\ variant = "src"
    /\ approval_mode = "default"
    /\ DbIdle
    /\ sch_tool \in SchemaTools
    /\ sch_exporter \in Exporters
    /\ sch_provider \in Providers
    /\ sch_export = EmptyDict
    /\ sch_pc = "idle"

\* the schema of the tool is exported for the provider
ExportSchema ==
    /\ sch_pc = "idle"
    /\ sch_export' = IF sch_exporter = "ToolSchema.get_tool_schema"
                     THEN ToolSchemaExport(sch_tool, sch_provider)
                     ELSE BaseToolExport(sch_tool, sch_provider)
    /\ sch_pc' = "exported"
    /\ UNCHANGED <<sch_tool, sch_exporter, sch_provider>>
    /\ UNCHANGED notSchemaVars

SchemaNext == ExportSchema

SpecSchema == SchemaInit /\ [][SchemaNext]_vars

ExecNext ==
    \/ ExecBegin
    \/ \E i \in 1..MaxExecCalls : ExecLookup(i)
    \/ \E i \in 1..MaxExecCalls : ExecRun(i)
    \/ GatherReturn
    \/ ManagerStep
    \/ ManagerReturn

SpecExec == ExecInit /\ [][ExecNext]_vars

\* ------------------------------------------------ claims on tool dispatch

\* call i names a tool the registry does not hold
Unregistered(i) == tool_calls[i].name \notin RegisteredTools

\* C2 (as claimed): execute_tools_parallel on N tool calls returns N results,
\* result i carrying call i's id and only call i's outcome: is_error exactly
\* when call i's tool is unknown or raises, every call with a registered tool
\* having run its tool whatever the other calls did.
C2_ResultsReflectOwnCall ==
    (dispatcher = "ToolExecutor" /\ exec_pc = "returned") =>
        /\ Len(exec_results) = Len(tool_calls)
        /\ \A i \in 1..Len(tool_calls) :
            /\ exec_results[i].tool_call_id = tool_calls[i].id
            /\ exec_results[i].is_error = (Unregistered(i) \/ tool_calls[i].raises)
            /\ ~Unregistered(i) =>
                    \E k \in 1..Len(tool_runs) : tool_runs[k] = tool_calls[i].id

\* no tool body ran and no event was published for call i
NothingRanFor(i) ==
    /\ \A k \in 1..Len(tool_runs) : tool_runs[k] # tool_calls[i].id
    /\ \A k \in 1..Len(exec_events) : exec_events[k].id # tool_calls[i].id

\* C10 (as claimed): a tool call naming a tool that is not registered yields a
\* result with tool_call_id equal to the call's id and is_error=true, with no
\* tool body (and no middleware hook) invoked on that path.
C10_UnknownToolIsErrorResult ==
    \A i \in 1..Len(exec_results) :
        Unregistered(i) =>
            /\ exec_results[i].tool_call_id = tool_calls[i].id
            /\ "is_error" \in DOMAIN exec_results[i]
            /\ exec_results[i].is_error
            /\ NothingRanFor(i)

\* C10 (amended): ToolExecutor.execute_tool answers a call naming an
\* unregistered tool at once, before any event, with a ToolResult carrying the
\* call's id and is_error=true, and execute_tools_parallel returns it at the
\* call's position; each result ToolCallManager.schedule appends for such a
\* call is a tool message with the call's id and a not-found text, which has
\* no is_error field; on neither path is a tool body run for that call (a
\* middleware hook is invoked on no path at all).
C10_UnknownToolReported ==
    /\ \A i \in 1..Len(task_pc) :
        (Unregistered(i) /\ task_pc[i] # "pending") =>
            /\ task_pc[i] = "done"
            /\ outcomes[i].kind = "return"
            /\ outcomes[i].value.tool_call_id = tool_calls[i].id
            /\ outcomes[i].value.is_error
            /\ NothingRanFor(i)
    /\ \A i \in 1..Len(exec_results) :
        Unregistered(i) =>
            /\ exec_results[i].tool_call_id = tool_calls[i].id
            /\ NothingRanFor(i)
            /\ IF dispatcher = "ToolExecutor"
               THEN exec_results[i].is_error
                    /\ exec_results[i] = outcomes[i].value
               ELSE /\ DOMAIN exec_results[i] =
                            {"tool_call_id", "role", "name", "content"}
                    /\ exec_results[i].role = "tool"
                    /\ exec_results[i].content \in
                            {"Tool not found: ",
                             "Tool name is missing in the request."}

\* execute_tools_parallel returned [registered call, unknown call]: the unknown
\* one has its is_error result at its position and the other was dispatched
C10_Witness ==
    /\ dispatcher = "ToolExecutor"
    /\ exec_pc = "returned"
    /\ Len(tool_calls) = 2
    /\ ~Unregistered(1)
    /\ Unregistered(2)
    /\ exec_results[2].tool_call_id = tool_calls[2].id
    /\ exec_results[2].is_error
    /\ exec_events # <<>>

\* ---------------------------------- claims on turn sequencing (C11 onwards)

\* every tool call an assistant message of h carries has a tool message after it
AllCallsAnswered(h) ==
    \A i \in 1..Len(h) :
        h[i].role = "assistant" =>
            \A k \in 1..Len(h[i].tool_calls) :
                \E j \in (i + 1)..Len(h) :
                    /\ h[j].role = "tool"
                    /\ h[j].tool_call_id = h[i].tool_calls[k].id

\* C11 (as claimed): no model request is issued while a tool call of an
\* earlier turn is still executing or lacks its tool message: at every request
\* the loop is not inside schedule and every tool call of the history the
\* request is built from has its tool message.
C11_NoRequestBeforeToolMessages ==
    [][(requests' = requests + 1) =>
        (pc # "schedule" /\ AllCallsAnswered(history))]_vars

\* call i of the current dispatch has finished
Finished(i) ==
    IF dispatcher = "ToolExecutor" THEN task_pc[i] = "done"
    ELSE Len(exec_results) >= i

\* call i of the current dispatch has not started
NotStarted(i) ==
    IF dispatcher = "ToolExecutor" THEN task_pc[i] = "pending"
    ELSE Len(exec_results) < i

\* call i of the current dispatch can start now
CanStart(i) ==
    IF dispatcher = "ToolExecutor" THEN ENABLED ExecLookup(i)
    ELSE Len(exec_results) + 1 = i /\ ENABLED ManagerStep

MaxSesRequests == 2
\* chunks one streamed response yields
MaxChunks == 2

\* the event LlmClient.send_message_stream publishes for a chunk
ChunkEvents == {"stream_content", "stream_tool_call", "stream_chunk"}

SesInit ==
    /\ BusIdle
    /\ LoopIdle
    /\ ExecIdle
    /\ variant = "src"
    /\ approval_mode = "default"
    /\ SesIdle
    /\ ReadIdle
    /\ RegIdle
    /\ SchemaIdle
    /\ DbIdle

\* generate_content_streaming's except clause: the exception is logged and
\* final_response, still None, is returned; chat_message_stream then leaves the
\* history as it is
SesCaught(failure, events) ==
    /\ ses_failure' = failure
    /\ ses_events' = events
    /\ ses_outcome' = [kind |-> "return", value |-> None]
    /\ ses_pc' = "returned"
    /\ UNCHANGED ses_history

\* LLMClientSession.chat_message_stream up to the first model request
ChatMessageStream ==
    /\ ses_pc \in {"idle", "returned"}
    /\ ses_requests < MaxSesRequests
    /\ ses_history' = Append(IF ses_history = <<>> THEN <<SystemMsg>>
                             ELSE ses_history, UserMsg)
    /\ ses_messages' = ses_history'
    /\ ses_pc' = "await_model"
    /\ ses_events' = <<>>
    /\ ses_chunks' = 0
    /\ ses_failure' = "none"
    /\ ses_outcome' = [kind |-> "none", value |-> None]
    /\ UNCHANGED ses_requests
    /\ UNCHANGED notSesVars

\* LlmClient.send_message_stream is entered: STREAM_START, then acompletion
SesSendRequest ==
    /\ ses_pc = "await_model"
    /\ ses_requests < MaxSesRequests
    /\ ses_requests' = ses_requests + 1
    /\ ses_events' = Append(ses_events, "stream_start")
    /\ ses_chunks' = 0
    /\ ses_pc' = "streaming"
    /\ UNCHANGED <<ses_history, ses_messages, ses_failure, ses_outcome>>
    /\ UNCHANGED notSesVars

\* a chunk arrives: its event is published and it is yielded; the loop body
\* of generate_content_streaming reads chunk.data, which the chunk has or not
SesChunk ==
    /\ ses_pc = "streaming"
    /\ ses_chunks < MaxChunks
    /\ ses_chunks' = ses_chunks + 1
    /\ \E e \in ChunkEvents, has_data \in BOOLEAN :
        IF has_data
        THEN /\ ses_events' = Append(ses_events, e)
             /\ UNCHANGED <<ses_history, ses_pc, ses_failure, ses_outcome>>
        ELSE SesCaught("chunk_data", Append(ses_events, e))
    /\ UNCHANGED <<ses_messages, ses_requests>>
    /\ UNCHANGED notSesVars

\* litellm.acompletion or the iteration of the stream raises: STREAM_ERROR is
\* published and the exception re-raised, into generate_content_streaming's
\* except clause
SesTransportFails ==
    /\ ses_pc = "streaming"
    /\ SesCaught("transport", Append(ses_events, "stream_error"))
    /\ UNCHANGED <<ses_messages, ses_chunks, ses_requests>>
    /\ UNCHANGED notSesVars

\* the stream ends. With no chunk, STREAM_COMPLETE's data=chunk is unbound and
\* the client takes its error path. Otherwise STREAM_COMPLETE is published and
\* the chunks are aggregated: a None aggregate or a turn with tool calls
\* (tool_response is read before it is assigned) raises into the except clause;
\* content with finish_reason "stop" is returned and added to the history;
\* anything else starts the next turn
SesStreamEnds ==
    /\ ses_pc = "streaming"
    /\ IF ses_chunks = 0
       THEN /\ SesCaught("no_chunk", Append(ses_events, "stream_error"))
            /\ UNCHANGED ses_messages
       ELSE \E c \in Contents, fr \in FinishReasons, has_calls \in BOOLEAN,
               aggregate_none \in BOOLEAN :
            LET m == [content |-> c,
                      tool_calls |-> IF has_calls
                                     THEN CallList(<<[id |-> 1, name |-> "read_file",
                                                      args_ok |-> TRUE]>>)
                                     ELSE NoCalls]
                done == Append(ses_events, "stream_complete")
            IN  IF aggregate_none
                THEN /\ c = None /\ fr = "stop" /\ ~has_calls
                     /\ SesCaught("aggregate", done)
                     /\ UNCHANGED ses_messages
                ELSE /\ ses_messages' = SetAssistantMsg(ses_messages, m)
                     /\ IF has_calls
                        THEN SesCaught("tool_response_unbound",
                                       Append(done, "token_count"))
                        ELSE /\ ses_events' = Append(done, "token_count")
                             /\ UNCHANGED ses_failure
                             /\ IF Truthy(c) /\ fr = "stop"
                                THEN /\ ses_outcome' = [kind |-> "return", value |-> c]
                                     /\ ses_history' =
                                            Append(ses_history, AssistantMsg(c, <<>>))
                                     /\ ses_pc' = "returned"
                                ELSE /\ ses_pc' = "await_model"
                                     /\ UNCHANGED <<ses_history, ses_outcome>>
    /\ UNCHANGED <<ses_chunks, ses_requests>>
    /\ UNCHANGED notSesVars

SesNext ==
    \/ ChatMessageStream
    \/ SesSendRequest
    \/ SesChunk
    \/ SesTransportFails
    \/ SesStreamEnds

SpecSession == SesInit /\ [][SesNext]_vars

\* ------------------------------------------------ claims on the session

\* position of the first occurrence of event e in the task's events, or 0
FirstEvent(e) ==
    IF \E i \in 1..Len(ses_events) : ses_events[i] = e
    THEN CHOOSE i \in 1..Len(ses_events) :
            /\ ses_events[i] = e
            /\ \A j \in 1..(i - 1) : ses_events[j] # e
    ELSE 0

\* C13 (as claimed): when the completion transport fails during a model
\* request, an error event and then a stream-complete event have both been
\* published by the time the failure reaches the caller.
C13_ErrorThenCompletePublished ==
    (ses_pc = "returned" /\ ses_failure = "transport") =>
        /\ FirstEvent("stream_error") > 0
        /\ \E j \in (FirstEvent("stream_error") + 1)..Len(ses_events) :
                ses_events[j] = "stream_complete"

\* C14 (as claimed): a transport failure ends the task with the caller
\* observing the error instead of a normal return value, and it is the only
\* failure that reaches the caller as an exception.
C14_OnlyTransportFailureRaises ==
    ses_pc = "returned" =>
        (ses_outcome.kind = "raise" <=> ses_failure = "transport")

\* ------------------------------------- claims on confirmation and policy

\* the tool body of call k (id k) ran during the current dispatch
BodyRan(k) == \E j \in 1..Len(tool_runs) : tool_runs[j] = k

\* the decisions obtained for call k during the current dispatch
Decisions(k) ==
    {exec_confirms[j].confirmed :
        j \in {x \in 1..Len(exec_confirms) : exec_confirms[x].id = k}}

\* a tool that needs confirmation ran only on a yes, and never on a no
DecidedBeforeRun ==
    \A k \in 1..Len(tool_calls) :
        /\ (BodyRan(k) /\ ShouldConfirmExecute(tool_calls[k].name)) =>
                Decisions(k) = {TRUE}
        /\ FALSE \in Decisions(k) =>
                /\ ~BodyRan(k)
                /\ Len(exec_results) >= k =>
                        exec_results[k].content = "Tool execution cancelled by user."

Resolved(k) ==
    /\ ~Unregistered(k)
    /\ tool_calls[k].args_ok
    /\ Len(exec_results) >= k

\* C16 (as claimed): the policy decides execution in ToolCallManager.schedule:
\* under never-execute ("none") no tool body is ever invoked, under
\* auto-approve-all ("yolo") every resolved tool call executes without a
\* confirmation request, and only under per-call confirmation ("default") is a
\* yes/no decision requested.
C16_PolicyDecidesExecution ==
    dispatcher = "ToolCallManager" =>
        /\ approval_mode = "none" => tool_runs = <<>>
        /\ approval_mode = "yolo" =>
                /\ exec_confirms = <<>>
                /\ \A k \in 1..Len(tool_calls) : Resolved(k) => BodyRan(k)
        /\ exec_confirms # <<>> => approval_mode = "default"

----------------------------------------------------------------------------
\* Middleware hooks and events of ToolExecutor.execute_tool

\* what the executor invoked for call i, in order
TraceOf(i) ==
    SelectSeq(exec_trace, LAMBDA e : e.id = tool_calls[i].id)

\* the events the executor published for call i, in order
EventsOf(i) ==
    SelectSeq(exec_events, LAMBDA e : e.id = tool_calls[i].id)

\* the stack order of a call over the middleware list mws: every before hook
\* in list order, the body, every after hook in reverse order
StackOrder(i, mws) ==
    LET n == Len(mws)
    IN  [k \in 1..(2 * n + 1) |->
            IF k <= n
            THEN [id |-> tool_calls[i].id, step |-> "before_execution",
                  mw |-> mws[k]]
            ELSE IF k = n + 1
            THEN [id |-> tool_calls[i].id, step |-> "execute", mw |-> None]
            ELSE [id |-> tool_calls[i].id, step |-> "after_execution",
                  mw |-> mws[2 * n + 2 - k]]]

\* execute_tool was called for call i and has finished
ExecFinished(i) ==
    /\ dispatcher = "ToolExecutor"
    /\ i \in 1..Len(task_pc)
    /\ task_pc[i] = "done"

\* C17 (as claimed): for every tool call that succeeds (a registered tool
\* whose hooks and body do not raise) execute_tool returns a non-error result
\* after running the before hooks in list order (global ones first, then the
\* tool's own), then the body, then the after hooks in reverse order (the
\* tool's own first, then the global ones). The registry holds no global
\* middleware, so the order claimed is that of the tool's own list.
C17_HooksInStackOrder ==
    \A i \in 1..Len(task_pc) :
        (ExecFinished(i) /\ ~Unregistered(i) /\ ~tool_calls[i].raises) =>
            /\ outcomes[i].kind = "return"
            /\ ~outcomes[i].value.is_error
            /\ TraceOf(i) = StackOrder(i, tool_middleware)

\* the on_error hooks of call i that were offered the exception, in order
OnErrorOffers(i) ==
    SelectSeq(TraceOf(i), LAMBDA e : e.step = "on_error")

\* C18 (as claimed): execute_tool never raises to its caller; when the body
\* of a registered tool raises, the on_error hooks are offered the exception
\* in list order, and the call returns either a fallback one of them gave or,
\* all of them having been offered it, an is_error ToolResult with the call's
\* id.
C18_ExecuteToolNeverRaises ==
    \A i \in 1..Len(task_pc) :
        ExecFinished(i) =>
            /\ outcomes[i].kind = "return"
            /\ (~Unregistered(i) /\ tool_calls[i].raises) =>
                    /\ \A k \in 1..Len(OnErrorOffers(i)) :
                            OnErrorOffers(i)[k].mw = tool_middleware[k]
                    /\ \/ outcomes[i].value.kind = "fallback"
                       \/ /\ Len(OnErrorOffers(i)) = Len(tool_middleware)
                          /\ outcomes[i].value.is_error
                          /\ outcomes[i].value.tool_call_id = tool_calls[i].id

\* C19 (as claimed): every execute_tool call, an unknown tool's included, has
\* by its return published exactly two events carrying the call's id: a
\* tool-call-request first, then one tool-call-response or error event.
C19_RequestThenOneResponseEvent ==
    \A i \in 1..Len(task_pc) :
        ExecFinished(i) =>
            /\ Len(EventsOf(i)) = 2
            /\ EventsOf(i)[1].type = "tool_call_request"
            /\ EventsOf(i)[2].type \in {"tool_call_response", "error"}

----------------------------------------------------------------------------
\* Per-subscriber delivery order on the event bus

\* the events subscription i has been given so far: those passed to its
\* handler, then those still in its queue
Delivered(i) ==
    [k \in 1..Len(handled[i]) |-> handled[i][k].event] \o subscriptions[i].queue

\* the handler of subscription i has just been passed an event
HandlerCalled(i) == Len(handled'[i]) = Len(handled[i]) + 1

\* C20: the events passed to a subscriber's handler are exactly the published
\* events whose kind is in its kind set, minus the ones dropped on a full
\* queue, in publish order: a publish puts a matching event at the end of the
\* subscriber's queue or counts it as dropped and leaves the queue of a
\* subscriber whose kind set lacks the kind alone; the handler is passed the
\* oldest queued event each time; so the events a subscriber was given all
\* have a kind of its set and come in increasing publish number.
C20_MatchingEventsInPublishOrder ==
    /\ [][PublishStep =>
            \A i \in DOMAIN subscriptions :
                IF NewEvent.etype \in subscriptions[i].event_types
                   /\ subscriptions[i].active
                THEN \/ /\ subscriptions'[i].queue =
                                Append(subscriptions[i].queue, NewEvent)
                        /\ dropped'[i] = dropped[i]
                     \/ /\ subscriptions'[i].queue = subscriptions[i].queue
                        /\ dropped'[i] = dropped[i] + 1
                ELSE /\ subscriptions'[i].queue = subscriptions[i].queue
                     /\ dropped'[i] = dropped[i]]_vars
    /\ [][\A i \in SubIds : HandlerCalled(i) =>
            /\ i \in DOMAIN subscriptions
            /\ subscriptions[i].queue # <<>>
            /\ handled'[i][Len(handled'[i])].event = Head(subscriptions[i].queue)
            /\ subscriptions'[i].queue = Tail(subscriptions[i].queue)]_vars
    /\ [][\A i \in DOMAIN subscriptions :
            (~PublishStep /\ i \in DOMAIN subscriptions') =>
                \/ subscriptions'[i].queue = subscriptions[i].queue
                \/ HandlerCalled(i)]_vars
    /\ [](\A i \in DOMAIN subscriptions :
            /\ \A k \in 1..Len(Delivered(i)) :
                    /\ Delivered(i)[k].etype \in subscriptions[i].event_types
                    /\ Delivered(i)[k].n \in 1..published
            /\ \A k, l \in 1..Len(Delivered(i)) :
                    k < l => Delivered(i)[k].n < Delivered(i)[l].n)

\* a subscriber to "content" only was passed the first and the third published
\* event, the second one being an "error" event it was never given
C20_Witness ==
    \E i \in DOMAIN subscriptions :
        /\ subscriptions[i].event_types = {"content"}
        /\ published >= 3
        /\ Len(handled[i]) = 2
        /\ handled[i][1].event.n = 1
        /\ handled[i][2].event.n = 3
        /\ subscriptions[i].queue = <<>>
        /\ dropped[i] = 0

----------------------------------------------------------------------------
\* EventManager.unsubscribe

\* unsubscribe(unsub_id) returns in this step
UnsubscribeReturns == lock = "unsubscribe" /\ lock' = "free"

\* a whole call made on the bus in this step that is no publish, subscribe
\* or shutdown call and no start of an unsubscribe: an unsubscribe with an id
\* that is not in the table
UnknownUnsubscribed ==
    /\ bus_calls' = bus_calls + 1
    /\ published' = published
    /\ subscription_counter' = subscription_counter
    /\ shutdown_flag' = shutdown_flag
    /\ lock' = lock

\* C21 (as claimed): when unsubscribe(id) returns, the subscription is no
\* longer in the bus and no event that was queued for it is left unhandled in
\* its queue (the pending items were drained).
C21_UnsubscribeDrainsQueue ==
    [][UnsubscribeReturns =>
            /\ unsub_id \notin DOMAIN subscriptions'
            /\ subscriptions[unsub_id].queue = <<>>]_vars

\* C21 (amended): unsubscribe(id) marks the subscription inactive, cancels its
\* consumer task, waits for the task to end and deletes the subscription; the
\* events still in its queue are discarded with it, not handled. From the
\* moment the call has the lock the handler is invoked for no further event,
\* whether queued before or published later, and nothing more is queued for
\* it; when the call returns the subscription is not in the bus and its task
\* is done. Unsubscribing an id that is not in the bus changes nothing.
C21_UnsubscribeCancelsAndRemoves ==
    /\ [][UnsubscribeReturns =>
            /\ unsub_id \notin DOMAIN subscriptions'
            /\ subscriptions[unsub_id].task = "done"
            /\ \A j \in DOMAIN subscriptions \ {unsub_id} :
                    subscriptions'[j] = subscriptions[j]
            /\ handled' = handled]_vars
    /\ [][\A i \in 1..subscription_counter :
            IF i \notin DOMAIN subscriptions
            THEN handled'[i] = handled[i] /\ i \notin DOMAIN subscriptions'
            ELSE ~subscriptions[i].active =>
                    /\ handled'[i] = handled[i]
                    /\ i \in DOMAIN subscriptions' =>
                            subscriptions'[i].queue = subscriptions[i].queue]_vars
    /\ [][UnknownUnsubscribed =>
            UNCHANGED <<subscriptions, event_history, handled, dropped>>]_vars
    /\ [](\A i \in DOMAIN subscriptions : i <= subscription_counter)

\* a subscription that was passed one event has been removed, and a later
\* event of a kind it subscribed to was published without reaching its handler
C21_Witness ==
    \E i \in SubIds :
        /\ i <= subscription_counter
        /\ i \notin DOMAIN subscriptions
        /\ lock = "free"
        /\ ~shutdown_flag
        /\ Len(handled[i]) = 1
        /\ event_history # <<>>
        /\ event_history[Len(event_history)].etype = "content"
        /\ event_history[Len(event_history)].n > handled[i][1].event.n

----------------------------------------------------------------------------
\* EventManager.get_event_history

\* the retained events whose kind is in kinds, all of them when kinds is not
\* given
OfKinds(h, kinds) ==
    IF kinds.given THEN SelectSeq(h, LAMBDA e : e.etype \in kinds.value) ELSE h

\* the n most recent items of a sequence
MostRecent(seq, n) ==
    IF n >= Len(seq) THEN seq ELSE SubSeq(seq, Len(seq) - n + 1, Len(seq))

\* C22 (as claimed): get_event_history(kinds, limit) returns the retained
\* events whose kind is in kinds (all of them when kinds is not given), in
\* publish order, cut to the limit most recent, so that the result has at most
\* limit events for every limit >= 0; the call changes neither the retained
\* history nor any subscriber's queue, and later publishes leave the result
\* as it was.
C22_HistoryFilteredAndCut ==
    /\ [](snapshot.taken =>
            LET matching == OfKinds(snapshot.of, snapshot.kinds)
            IN  IF snapshot.limit.given
                THEN /\ snapshot.events = MostRecent(matching, snapshot.limit.value)
                     /\ Len(snapshot.events) <= snapshot.limit.value
                ELSE snapshot.events = matching)
    /\ [][snapshot' # snapshot =>
            UNCHANGED <<event_history, subscriptions, handled, dropped>>]_vars
    /\ [][published' # published => snapshot' = snapshot]_vars

----------------------------------------------------------------------------
\* The retained history

\* C23: after any sequence of publishes the retained history holds at most
\* max_event_history events, and they are exactly the most recently published
\* ones, in publish order: with p events published it holds the events
\* numbered p - len + 1 .. p, where len is the smaller of p and
\* max_event_history.
C23_HistoryIsMostRecent ==
    ~shutdown_flag =>
        /\ Len(event_history) <= MaxHistory
        /\ Len(event_history) =
                (IF published < MaxHistory THEN published ELSE MaxHistory)
        /\ \A k \in 1..Len(event_history) :
                event_history[k].n = published - Len(event_history) + k

\* one event more than the history holds was published: the first one is gone
C23_Witness ==
    /\ ~shutdown_flag
    /\ published = MaxHistory + 1
    /\ Len(event_history) = MaxHistory
    /\ event_history[1].n = 2
    /\ event_history[MaxHistory].n = published

----------------------------------------------------------------------------
\* publish after shutdown

\* a publish() call made once shutdown() has been called
LatePublishStep == shutdown_flag /\ published' = published + 1

\* C24: once shutdown has been called, every later publish is a no-op: it
\* adds nothing to the retained history and enqueues nothing to any subscriber
\* queue (no subscription changes, nothing is counted as dropped, no handler
\* is called), and it returns at once, whoever holds the lock.
C24_PublishAfterShutdownIsNoOp ==
    /\ [][LatePublishStep =>
            UNCHANGED <<event_history, subscriptions, dropped, handled, lock,
                        shutdown_pc>>]_vars
    /\ []((shutdown_flag /\ bus_calls < MaxBusCalls) =>
                ENABLED PublishAfterShutdown)

\* shutdown was called on a bus with a subscription and no event, and a
\* publish made after it left the history and the subscriber's queue empty
C24_Witness ==
    /\ shutdown_flag
    /\ shutdown_pc = "in_unsubscribe"
    /\ published >= 1
    /\ event_history = <<>>
    /\ \E i \in DOMAIN subscriptions :
            /\ subscriptions[i].queue = <<>>
            /\ handled[i] = <<>>
            /\ dropped[i] = 0

----------------------------------------------------------------------------
\* Token-count events

\* no turn is in progress: the loop is before a request, has returned, or has
\* been left by an exception
BetweenTurns == pc \in {"idle", "await_model", "done", "error"}

\* C25 (as claimed): for every turn in which the transport delivered an
\* aggregated response (with usage counters) exactly one token-count event is
\* published for that turn, whether the loop goes on or ends: between turns
\* there are as many token-count events as aggregated responses, and during a
\* turn at most the current turn's event is missing.
C25_OneTokenCountPerTurn ==
    /\ BetweenTurns => token_counts = aggregates
    /\ token_counts \in {aggregates - 1, aggregates}

----------------------------------------------------------------------------
\* One tool message per tool call

\* the dispatch of the turn's tool calls has returned its tool messages
DispatchOver == exec_pc = "returned"

\* C26 (as claimed): dispatching the tool calls of one turn produces exactly
\* one tool message per tool call, in request order and carrying that call's
\* id, also for a call whose tool name is missing or not registered: no tool
\* call is dropped.
C26_OneToolMessagePerCall ==
    DispatchOver =>
        /\ Len(exec_results) = Len(tool_calls)
        /\ \A i \in 1..Len(tool_calls) :
                /\ exec_results[i].tool_call_id = tool_calls[i].id
                /\ exec_results[i].role = "tool"

----------------------------------------------------------------------------
\* A turn whose aggregation yields nothing

\* the aggregation of the current turn's chunks yields no final message
AggregationYieldsNothing == pc = "streaming" /\ loop_failure' = "aggregate"

----------------------------------------------------------------------------
\* Mutual exclusion on the subscription table

\* an operation is in the middle of iterating the subscription table: publish
\* and shutdown iterate it with the lock held; wait_for_previous_events is
\* suspended inside its for loop
TableBeingIterated == wait_pc = "sleeping"

\* C28 (as claimed): every change of the subscription table is mutually
\* exclusive with every operation that iterates it: while an iteration of the
\* table is in progress no subscribe or unsubscribe changes the table, and no
\* iteration fails on a table changed under it.
C28_TableMutationExcludesIteration ==
    /\ [][TableBeingIterated =>
            DOMAIN subscriptions' = DOMAIN subscriptions]_vars
    /\ [](wait_pc # "raised")

----------------------------------------------------------------------------
\* Tool registration

\* C29 (as claimed): registration is an idempotent insert keyed by tool name
\* where the last registration wins: after any sequence of registrations
\* get(name) returns the tool most recently registered under that name, and
\* nothing for a name never registered; registering a tool that is in the
\* registry already leaves the registry as it was; no registration raises.
C29_LastRegistrationWins ==
    /\ [](\A name \in RegNames :
            RegistryGet(reg_tools, name) =
                (IF reg_registered[name] = 0 THEN [found |-> FALSE, tool |-> 0]
                 ELSE [found |-> TRUE, tool |-> reg_registered[name]]))
    /\ [](~reg_raised)
    /\ [][(reg_ops' = reg_ops + 1 /\ reg_next' = reg_next) =>
            reg_tools' = reg_tools]_vars

----------------------------------------------------------------------------
\* Schema export round trip

\* the dict of an export that holds the tool's name and description: the
\* "function" entry of the nested shapes, the export itself otherwise
Described(export) ==
    IF "function" \in DOMAIN export THEN export.function ELSE export

\* the required-parameter names read back from an export: under
\* "input_schema", under a "parameters" object, or at the top level
RequiredReadBack(export) ==
    LET d == Described(export)
    IN  IF "input_schema" \in DOMAIN d THEN Elements(d.input_schema.required)
        ELSE IF "required" \in DOMAIN d THEN Elements(d.required)
        ELSE Elements(d.parameters.required)

\* C30 (as claimed): for every tool schema and every provider format (the
\* generic default, each named provider, and an unknown one, which falls back
\* to generic) the exported schema carries the tool's name and description,
\* and the required-parameter names read back from the export are the set
\* declared at tool construction.
C30_ExportKeepsNameDescriptionRequired ==
    sch_pc = "exported" =>
        /\ {"name", "description"} \subseteq DOMAIN Described(sch_export)
        /\ Described(sch_export).name = sch_tool.name
        /\ Described(sch_export).description = sch_tool.description
        /\ RequiredReadBack(sch_export) = Elements(sch_tool.required)

----------------------------------------------------------------------------
\* Tool call life cycle

\* execute_tool has returned a ToolResult for call i
ExecutorReturned(i) ==
    /\ dispatcher = "ToolExecutor"
    /\ i \in 1..Len(tool_calls)
    /\ task_pc[i] = "done"
    /\ outcomes[i].kind = "return"

\* C31 (as claimed): a ToolCall is created with status pending, has status
\* completed or failed once the executor has returned its result, and never
\* moves from completed, failed or cancelled back to pending or executing.
C31_StatusFollowsExecution ==
    /\ [](dispatcher = "ToolExecutor" =>
            \A i \in 1..Len(tool_calls) :
                /\ task_pc[i] = "pending" => tool_calls[i].status = "pending"
                /\ ExecutorReturned(i) =>
                        tool_calls[i].status \in {"completed", "failed"})
    /\ [][dispatcher = "ToolExecutor" =>
            \A i \in 1..Len(tool_calls) :
                (/\ i \in 1..Len(tool_calls')
                 /\ tool_calls[i].status \in {"completed", "failed", "cancelled"})
                    => tool_calls'[i].status \notin {"pending", "executing"}]_vars

----------------------------------------------------------------------------
\* Waiting for earlier events

\* wait_for_previous_events returns to its caller
WaitReturns == wait_pc # "returned" /\ wait_pc' = "returned"

\* C32 (as claimed): when wait_for_previous_events returns, every event
\* published before the call has been processed by its subscribers: every
\* subscription's queue is empty.
C32_WaitReturnsWithEmptyQueues ==
    [][WaitReturns =>
        \A i \in DOMAIN subscriptions' : subscriptions'[i].queue = <<>>]_vars

----------------------------------------------------------------------------
\* Execution statistics

\* the execute_tool calls made for the registered tool name that are over
CallsMadeFor(name) ==
    {i \in 1..Len(tool_calls) : tool_calls[i].name = name /\ task_pc[i] = "done"}

\* those of them whose returned result has the given is_error
ReturnedWith(name, is_error) ==
    {i \in CallsMadeFor(name) :
        outcomes[i].kind = "return" /\ outcomes[i].value.is_error = is_error}

\* C33 (as claimed): after any sequence of execute_tool calls the statistics
\* of every registered tool satisfy: total_executions is the number of calls
\* made for the tool, successful_executions the number of those whose result
\* has is_error false, failed_executions the number whose result has is_error
\* true, and total = successful + failed.
C33_StatsCountExecutions ==
    dispatcher = "ToolExecutor" =>
        \A name \in RegisteredTools :
            LET st == execution_stats[name]
            IN  /\ st.total_executions = Cardinality(CallsMadeFor(name))
                /\ st.successful_executions = Cardinality(ReturnedWith(name, FALSE))
                /\ st.failed_executions = Cardinality(ReturnedWith(name, TRUE))
                /\ st.total_executions =
                        st.successful_executions + st.failed_executions

----------------------------------------------------------------------------
\* Audit database

\* the calls made so far that are of the given kind and had the given outcome
CallsWith(call, outcome) ==
    {k \in 1..Len(db_returns) :
        db_returns[k].call = call /\ db_returns[k].outcome = outcome}

----------------------------------------------------------------------------
\* Tool messages and the assistant message that asked for them

\* index of the last assistant message before position j, or 0
LastAssistantBefore(h, j) ==
    IF \E i \in 1..(j - 1) : h[i].role = "assistant"
    THEN CHOOSE i \in 1..(j - 1) :
            /\ h[i].role = "assistant"
            /\ \A k \in (i + 1)..(j - 1) : h[k].role # "assistant"
    ELSE 0

\* C35 (as claimed): every tool message of the history is preceded, with no
\* other assistant message in between, by an assistant message whose
\* tool_calls contain its tool_call_id, for every response shape.
C35_ToolMessageFollowsItsAssistant ==
    \A j \in 1..Len(history) :
        history[j].role = "tool" =>
            LET i == LastAssistantBefore(history, j)
            IN  /\ i > 0
                /\ \E c \in 1..Len(history[i].tool_calls) :
                        history[i].tool_calls[c].id = history[j].tool_call_id

----------------------------------------------------------------------------
\* The call id on tool results

----------------------------------------------------------------------------
\* What a task leaves in the session history

\* the messages of part occur in whole, in the same order
RECURSIVE ContainsInOrder(_, _)
ContainsInOrder(whole, part) ==
    IF part = <<>> THEN TRUE
    ELSE IF whole = <<>> THEN FALSE
    ELSE IF Head(whole) = Head(part)
         THEN ContainsInOrder(Tail(whole), Tail(part))
         ELSE ContainsInOrder(Tail(whole), part)

\* chat_message_stream has completed a task in which nothing raised
TaskCompleted == ses_pc = "returned" /\ ses_failure = "none"

\* C37 (as claimed): after chat_message_stream completes a task, the session
\* history contains, in order, the user message and every assistant and tool
\* message the loop appended while running that task.
C37_HistoryKeepsLoopMessages ==
    TaskCompleted => ContainsInOrder(ses_history, ses_messages)

----------------------------------------------------------------------------
\* The events of one model request

\* the events LlmClient.send_message_stream published for the latest request:
\* those from the last stream_start on, the generator's token count left out
RequestEvents ==
    LET starts == {i \in 1..Len(ses_events) : ses_events[i] = "stream_start"}
        from == CHOOSE i \in starts : \A j \in starts : j <= i
    IN  SelectSeq(SubSeq(ses_events, from, Len(ses_events)),
                  LAMBDA e : e # "token_count")

\* the latest request is over: its stream has ended or failed (a stream the
\* loop stopped reading after a chunk is not over, it is abandoned)
RequestOver ==
    /\ ses_pc \in {"await_model", "returned"}
    /\ ses_failure # "chunk_data"
    /\ \E i \in 1..Len(ses_events) : ses_events[i] = "stream_start"

\* C38 (as claimed): the events the client publishes for a model request are
\* one stream-start, then one event per streamed chunk, then exactly one
\* terminal event and nothing after it: stream-complete if the stream ended
\* normally, a stream of zero chunks included, stream-error otherwise.
C38_StartChunksOneTerminal ==
    RequestOver =>
        LET ev == RequestEvents
        IN  /\ Len(ev) = ses_chunks + 2
            /\ ev[1] = "stream_start"
            /\ \A k \in 2..(Len(ev) - 1) : ev[k] \in ChunkEvents
            /\ ev[Len(ev)] = IF ses_failure = "transport" THEN "stream_error"
                             ELSE "stream_complete"

----------------------------------------------------------------------------
\* Registering the built-in tools from a config

\* register_tools was the latest operation on the registry
AfterRegisterTools == reg_config.at > 0 /\ reg_config.at = reg_ops

\* C39 (as claimed): after register_tools(config) the registry contains
\* exactly the built-in tools that are not listed in exclude_tools (by tool
\* name or by class name) and that, when core_tools is given, are named in
\* core_tools; exclusion wins over core_tools, and every tool registered
\* before the call is gone.
C39_RegistryHoldsEnabledBuiltins ==
    AfterRegisterTools =>
        \A name \in RegNames :
            RegistryGet(reg_tools, name).found <=> IsEnabled(name, reg_config)

====
